---- MODULE Spec2Model ----
(***************************************************************************)
(* tailstream-agent: the file tailer (tailFile), the per-stream dispatch   *)
(* loop of main, the stdin mode and the shipper's outcome, as one state    *)
(* machine.  The file system, the timers, the network answer and the       *)
(* cancellation signal are the environment.                                *)
(***************************************************************************)
EXTENDS Integers, Sequences, FiniteSets, TLC

(* ------------------------------ bounds --------------------------------- *)
\* Lines the environment writes over a run (all files together).
MaxLines == 3
\* Files ever created at tailed paths (each creation is a fresh inode).
MaxInodes == 2
\* Capacity of a stream's queue: make(chan LogLine, 100), scaled down.
QueueCap == 2
\* Events in a batch that trigger a flush: len(sd.batch) >= 100, scaled down.
BatchLimit == 2
\* Faults the environment injects over a run: permission changes and read errors.
MaxFaults == 1
\* Period of the dispatch ticker in clock units: time.NewTicker(2 * time.Second).
FlushPeriod == 2
\* The largest int, which strconv returns for a numeral out of range; the
\* code's int has 64 bits, the model's 32.
MaxInt64 == 2147483647

(* --------------------------- configuration ----------------------------- *)
Tailers == {1, 2}
Streams == {"s1", "s2"}
\* The one stream of stdin mode: StreamConfig{Name: "stdin", ...}.
StdinStream == "stdin"
AllStreams == Streams \cup {StdinStream}
\* The stream whose mapping lists the file tailer t reads (main.go:779-794).
StreamOf(t) == IF t = 1 THEN "s1" ELSE "s2"
\* The path tailer t was started with.
FileOf(t) == IF t = 1 THEN "a.log" ELSE "b.log"
Paths == {FileOf(t) : t \in Tailers}

\* Raw lines as the writer appends them: text plus terminator, one write each.
RawLines == { <<"{", "}", "\n">>, <<"x", "\r", "\n">> }

\* Every line the environment may write: the raw lines, the JSON value null,
\* a line in common access-log format, and a line whose second field is NaN.
ParseLines ==
  RawLines \cup { <<"null", "\n">>,
                  <<"ip", "-", "-", "[ts]", "GET", "/x", "200", "2326", "\n">>,
                  <<"x", "NaN", "\n">> }

\* A map with no entry (also what a nil map reads as).
EmptyMap == [k \in {} |-> ""]

\* A pattern is a sequence of elements, one per token of the line it matches:
\* a capture group taking any one token, or a literal token.
Group == "(\\S+)"

\* customFormat = nil: the stream has no custom format.
NoFormat == [Name |-> "nil", Pattern |-> <<>>, Fields |-> EmptyMap, Default |-> EmptyMap]
\* A LogFormat: its pattern, its field mapping and its default values.
LogFormat(pattern, fields, default) ==
  [Name |-> "custom", Pattern |-> pattern, Fields |-> fields, Default |-> default]
\* The custom formats a stream may be configured with: none, an empty pattern,
\* a pattern regexp.Compile rejects, and the pattern x (\S+) with its group
\* mapped to the field rt.
Formats ==
  {NoFormat, LogFormat(<<>>, EmptyMap, EmptyMap), LogFormat(<<"(">>, EmptyMap, EmptyMap),
   LogFormat(<<"x", Group>>, ("rt" :> "1"), EmptyMap)}

\* StreamConfig of each stream as discovery (file mode) or runStdinMode builds it.
DefaultStreams ==
  [s \in AllStreams |->
     IF s = StdinStream
     THEN [Name |-> "stdin", StreamID |-> "sid", Key |-> "token", LegacyURL |-> "",
           Format |-> NoFormat]
     ELSE [Name |-> s, StreamID |-> s, Key |-> "", LegacyURL |-> "", Format |-> NoFormat]]

\* Two streams configured with the same name.
SameNameStreams == [DefaultStreams EXCEPT !["s1"].Name = "app", !["s2"].Name = "app"]

\* f = nil / currentInode = 0: no open handle, no recorded inode.
NoInode == 0
\* reader = nil.
NoReader == -1
NoLine == [file |-> "", line |-> <<>>, src |-> <<0, 0, 0>>]
\* No function is applied on its own.
NoCall == [fn |-> "none", args |-> <<>>, ret |-> <<>>]

VARIABLES
  mode,          \* "file" | "stdin": which branch main took
  active,        \* tailers started by main (one per discovered file)
  streamCfg,     \* stream -> its StreamConfig (StreamID, Key, LegacyURL, Format)
  cfgKey,        \* cfg.Key, the fleet-wide key ("" when not configured)
  baseEnv,       \* TAILSTREAM_BASE_URL in the environment ("" when not set)
  path,          \* path -> inode the path names now, NoInode when absent
  content,       \* inode -> the complete lines written to it, in order
  perm,          \* path -> whether the agent may open the file there
  stat,          \* inode -> what Stat reports for the file: its device and inode number
  written,       \* number of lines written so far (bounds the run)
  faults,        \* number of permission changes and read errors so far (bounds the run)
  tpc,           \* tailer -> "start" | "loop" | "send" | "done"
  f,             \* tailer -> inode of the open handle, NoInode when nil
  pos,           \* tailer -> lines of f consumed by reader, NoReader when reader = nil
  partial,       \* tailer -> pieces of the unfinished line after those that reader
                 \* has consumed too (returned with io.EOF)
  currentInode,  \* tailer -> inode recorded at the last open
  retryTick,     \* tailer -> a tick waits in retryTicker.C
  pending,       \* tailer -> LogLine being sent on ch, NoLine otherwise
  emitted,       \* tailer -> LogLines sent on ch so far (history)
  opened,        \* tailer -> <<inode, offset, pieces>> of every successful open (history)
  closed,        \* tailer -> inode of every handle it closed (history)
  cancelled,     \* ctx.Done() is closed
  queue,         \* stream -> sd.lines, the stream's buffered channel
  batch,         \* stream -> sd.batch
  taken,         \* stream -> the lines the dispatch loop received from sd.lines (history)
  requests,      \* every shipEvents call so far: stream, events, outcome (history)
  dpc,           \* dispatch loop: "select" | "tick" | "pass" | "wait" | "final" |
                 \* "returned" | "crashed" (the goroutine panicked: the process is gone)
  visited,       \* streams the running range over streamMap has visited
  flushTick,     \* a tick waits in ticker.C
  phase,         \* clock units since the dispatch ticker last fired
  age,           \* stream -> clock units since the batch's first event, capped (history)
  stdin,         \* stdin mode: the lines of standard input not yet scanned
  linesClosed,   \* stdin mode: close(lines) was called
  call           \* the function applied on its own, with arguments and result
                 \* (NoCall throughout a run of the agent)

cfgVars == <<mode, active, streamCfg, cfgKey, baseEnv, call>>
fsVars == <<path, content, perm, written, faults, stat>>
tailVars ==
  <<tpc, f, pos, partial, currentInode, retryTick, pending, emitted, opened, closed>>
dispVars == <<batch, taken, requests, dpc, visited, flushTick, phase, age>>
stdinVars == <<stdin, linesClosed>>
vars == <<cfgVars, fsVars, tailVars, cancelled, queue, dispVars, stdinVars>>

(* ----------------------------- file system ----------------------------- *)
\* os.Open(file) succeeds: the path names a file the agent may read.
CanOpen(p) == path[p] # NoInode /\ perm[p]

\* The last line of the file has no terminator yet.
Unfinished(ino) ==
  /\ content[ino] # <<>>
  /\ LET last == content[ino][Len(content[ino])] IN last[Len(last)] # "\n"

\* A writer appends one complete line to the file the path names.
Write(p, raw) ==
  /\ mode = "file"
  /\ path[p] # NoInode /\ ~Unfinished(path[p])
  /\ written < MaxLines
  /\ content' = [content EXCEPT ![path[p]] = Append(@, raw)]
  /\ written' = written + 1
  /\ UNCHANGED <<path, perm, faults, stat>>
  /\ UNCHANGED <<cfgVars, tailVars, cancelled, queue, dispVars, stdinVars>>

\* A writer appends the text of a line in one write, leaving its terminator
\* to a later one.
WriteText(p, raw) ==
  /\ mode = "file"
  /\ path[p] # NoInode /\ ~Unfinished(path[p])
  /\ written < MaxLines
  /\ content' = [content EXCEPT ![path[p]] = Append(@, SubSeq(raw, 1, Len(raw) - 1))]
  /\ written' = written + 1
  /\ UNCHANGED <<path, perm, faults, stat>>
  /\ UNCHANGED <<cfgVars, tailVars, cancelled, queue, dispVars, stdinVars>>

\* The writer appends the terminator of the unfinished line.
WriteNewline(p) ==
  /\ mode = "file"
  /\ path[p] # NoInode /\ Unfinished(path[p])
  /\ content' = [content EXCEPT ![path[p]][Len(content[path[p]])] = Append(@, "\n")]
  /\ UNCHANGED <<path, perm, written, faults, stat>>
  /\ UNCHANGED <<cfgVars, tailVars, cancelled, queue, dispVars, stdinVars>>

\* The file is renamed away (or unlinked): the path names nothing. The inode
\* lives on for whoever holds it open, so its number is not reused.
Rename(p) ==
  /\ path[p] # NoInode
  /\ path' = [path EXCEPT ![p] = NoInode]
  /\ UNCHANGED <<content, perm, written, faults, stat>>
  /\ UNCHANGED <<cfgVars, tailVars, cancelled, queue, dispVars, stdinVars>>

\* The device the tailed directories are on.
LogDevice == "dev1"

\* A new, empty file is created at the path: a fresh inode of the same device.
Create(p) ==
  /\ path[p] = NoInode
  /\ Len(content) < MaxInodes
  /\ content' = Append(content, <<>>)
  /\ stat' = Append(stat, [Dev |-> LogDevice, Ino |-> Len(content) + 1])
  /\ path' = [path EXCEPT ![p] = Len(content) + 1]
  /\ UNCHANGED <<perm, written, faults>>
  /\ UNCHANGED <<cfgVars, tailVars, cancelled, queue, dispVars, stdinVars>>

\* Another device than the one the tailed directories are on.
OtherDevice == "dev2"

\* Another file system is mounted over the directory (or the path, a symbolic
\* link, is pointed into one): the path names a new, empty file of that device.
\* Inode numbers are per device: the new file's number is the number of the
\* file the path named before, or one not seen before.
Mount(p) ==
  /\ path[p] # NoInode
  /\ Len(content) < MaxInodes
  /\ content' = Append(content, <<>>)
  /\ \E n \in {stat[path[p]].Ino, Len(content) + 1} :
       stat' = Append(stat, [Dev |-> OtherDevice, Ino |-> n])
  /\ path' = [path EXCEPT ![p] = Len(content) + 1]
  /\ UNCHANGED <<perm, written, faults>>
  /\ UNCHANGED <<cfgVars, tailVars, cancelled, queue, dispVars, stdinVars>>

\* The permissions (ACL) at the path change.
Chmod(p) ==
  /\ faults < MaxFaults
  /\ perm' = [perm EXCEPT ![p] = ~@]
  /\ faults' = faults + 1
  /\ UNCHANGED <<path, content, written, stat>>
  /\ UNCHANGED <<cfgVars, tailVars, cancelled, queue, dispVars, stdinVars>>

(* ------------------------------- tailFile ------------------------------ *)
\* A panic in the dispatch loop ends the process and every goroutine with it.
Crashed == dpc = "crashed"

\* strings.TrimRight(line, "\r\n")
RECURSIVE TrimRight(_)
TrimRight(s) ==
  IF s # <<>> /\ s[Len(s)] \in {"\r", "\n"}
  THEN TrimRight(SubSeq(s, 1, Len(s) - 1))
  ELSE s

\* LogLine{File: file, Line: strings.TrimRight(line, "\r\n")}; src is the
\* tailer and the place the line was read from (history, not a field of the struct).
LogLine(t, ino, idx) ==
  [file |-> FileOf(t), line |-> TrimRight(content[ino][idx]), src |-> <<t, ino, idx>>]

\* Mutant: the file is read from its beginning.
SeekStart(ino) == 0

\* f.Seek(0, io.SeekEnd): the offset a freshly opened handle starts at, in
\* complete lines; the pieces of an unfinished line are behind it as well.
SeekEnd(ino) == IF Unfinished(ino) THEN Len(content[ino]) - 1 ELSE Len(content[ino])

\* Mutant: a handle is dropped without being closed.
ClosingNever(t) == closed

\* if f != nil { f.Close() }: the handles closed when the tailer lets go of the
\* one it holds, if any.
Closing(t) == IF f[t] # NoInode THEN [closed EXCEPT ![t] = Append(@, f[t])] ELSE closed

\* os.Open + Seek + bufio.NewReader + Stat, shared by the initial open and the
\* reopen (which follows the f.Close() of a rotated handle).
OpenAtEnd(t) ==
  LET ino == path[FileOf(t)] IN
  /\ closed' = Closing(t)
  /\ f' = [f EXCEPT ![t] = ino]
  /\ pos' = [pos EXCEPT ![t] = SeekEnd(ino)]
  /\ partial' = [partial EXCEPT ![t] =
                   IF Unfinished(ino) THEN Len(content[ino][Len(content[ino])]) ELSE 0]
  /\ currentInode' = [currentInode EXCEPT ![t] = stat[ino].Ino]
  /\ opened' = [opened EXCEPT ![t] =
                  Append(@, <<ino, SeekEnd(ino),
                              IF Unfinished(ino) THEN Len(content[ino][Len(content[ino])])
                              ELSE 0>>)]

\* f.Close(); f = nil; reader = nil; currentInode = 0
CloseHandle(t) ==
  /\ f' = [f EXCEPT ![t] = NoInode]
  /\ pos' = [pos EXCEPT ![t] = NoReader]
  /\ partial' = [partial EXCEPT ![t] = 0]
  /\ currentInode' = [currentInode EXCEPT ![t] = NoInode]
  /\ closed' = Closing(t)
  /\ UNCHANGED opened

\* The initial open, before the loop.
TailStart(t) ==
  /\ t \in active /\ tpc[t] = "start" /\ ~Crashed
  /\ IF CanOpen(FileOf(t)) THEN OpenAtEnd(t)
     ELSE UNCHANGED <<f, pos, partial, currentInode, opened, closed>>
  /\ tpc' = [tpc EXCEPT ![t] = "loop"]
  /\ UNCHANGED <<retryTick, pending, emitted, queue, cancelled>>
  /\ UNCHANGED <<cfgVars, fsVars, dispVars, stdinVars>>

\* retryTicker delivers a tick (its channel holds one; further ticks are dropped).
RetryTimer(t) ==
  /\ tpc[t] \in {"loop", "send"} /\ ~retryTick[t] /\ ~Crashed
  /\ retryTick' = [retryTick EXCEPT ![t] = TRUE]
  /\ UNCHANGED <<tpc, f, pos, partial, currentInode, pending, emitted, opened, closed, queue,
                 cancelled>>
  /\ UNCHANGED <<cfgVars, fsVars, dispVars, stdinVars>>

\* case <-ctx.Done()
TailCancel(t) ==
  /\ tpc[t] = "loop" /\ cancelled /\ ~Crashed
  /\ f' = [f EXCEPT ![t] = NoInode]
  /\ pos' = [pos EXCEPT ![t] = NoReader]
  /\ partial' = [partial EXCEPT ![t] = 0]
  /\ closed' = Closing(t)
  /\ tpc' = [tpc EXCEPT ![t] = "done"]
  /\ UNCHANGED <<currentInode, retryTick, pending, emitted, opened, queue, cancelled>>
  /\ UNCHANGED <<cfgVars, fsVars, dispVars, stdinVars>>

\* Mutant: every tick with an open handle is taken for a rotation.
RotatedAlways(t) == f[t] # NoInode

\* Mutant: the check looks at the open handle, which never changes inode.
RotatedNever(t) == f[t] # NoInode /\ stat[f[t]].Ino # currentInode[t]

\* Mutant: only a changed inode counts, a file that disappeared does not.
RotatedOnlyInode(t) ==
  /\ f[t] # NoInode
  /\ path[FileOf(t)] # NoInode /\ stat[path[FileOf(t)]].Ino # currentInode[t]

\* The rotation check of a tick: os.Stat(file) fails, or reports another
\* inode number (stat_t.Ino != currentInode).
Rotated(t) ==
  /\ f[t] # NoInode
  /\ \/ path[FileOf(t)] = NoInode
     \/ stat[path[FileOf(t)]].Ino # currentInode[t]

\* case <-retryTicker.C
TailTick(t) ==
  /\ tpc[t] = "loop" /\ retryTick[t] /\ ~Crashed
  /\ retryTick' = [retryTick EXCEPT ![t] = FALSE]
  /\ IF Rotated(t) \/ f[t] = NoInode
     THEN IF CanOpen(FileOf(t)) THEN OpenAtEnd(t) ELSE CloseHandle(t)
     ELSE UNCHANGED <<f, pos, partial, currentInode, opened, closed>>
  /\ UNCHANGED <<tpc, pending, emitted, queue, cancelled>>
  /\ UNCHANGED <<cfgVars, fsVars, dispVars, stdinVars>>

\* The default case is taken only when neither channel of the select is ready.
DefaultReady(t) == tpc[t] = "loop" /\ ~cancelled /\ ~retryTick[t] /\ ~Crashed

\* default: reader.ReadString returns what it had not yet consumed of the
\* next line, up to its terminator; the send on ch follows.
TailReadLine(t) ==
  /\ DefaultReady(t)
  /\ f[t] # NoInode /\ pos[t] < SeekEnd(f[t])
  /\ LET raw == content[f[t]][pos[t] + 1]
         line == SubSeq(raw, partial[t] + 1, Len(raw))
     IN pending' = [pending EXCEPT ![t] =
                      [LogLine(t, f[t], pos[t] + 1) EXCEPT !.line = TrimRight(line)]]
  /\ pos' = [pos EXCEPT ![t] = @ + 1]
  /\ partial' = [partial EXCEPT ![t] = 0]
  /\ tpc' = [tpc EXCEPT ![t] = "send"]
  /\ UNCHANGED <<f, currentInode, retryTick, emitted, opened, closed, queue, cancelled>>
  /\ UNCHANGED <<cfgVars, fsVars, dispVars, stdinVars>>

\* default: reader.ReadString finds no terminator: it returns the pieces of
\* the unfinished line it had not yet consumed, with io.EOF; the loop sleeps
\* and goes on (continue) without keeping them.
TailReadEOF(t) ==
  /\ DefaultReady(t)
  /\ f[t] # NoInode /\ Unfinished(f[t]) /\ pos[t] = SeekEnd(f[t])
  /\ partial[t] < Len(content[f[t]][pos[t] + 1])
  /\ partial' = [partial EXCEPT ![t] = Len(content[f[t]][pos[t] + 1])]
  /\ UNCHANGED <<tpc, f, pos, currentInode, retryTick, pending, emitted, opened, closed,
                 queue, cancelled>>
  /\ UNCHANGED <<cfgVars, fsVars, dispVars, stdinVars>>

\* default: reader.ReadString fails with an error other than io.EOF.
TailReadErr(t) ==
  /\ DefaultReady(t)
  /\ f[t] # NoInode
  /\ faults < MaxFaults
  /\ faults' = faults + 1
  /\ CloseHandle(t)
  /\ UNCHANGED <<tpc, retryTick, pending, emitted, queue, cancelled>>
  /\ UNCHANGED <<path, content, perm, written, stat>>
  /\ UNCHANGED <<cfgVars, dispVars, stdinVars>>

\* Mutant: every goroutine is handed the same channel.
ChanOfShared(t) == "s1"

\* The channel handed to the tailer goroutine: tailFile(ctx, filename, sd.lines).
ChanOf(t) == StreamOf(t)

\* Mutant: the channel is unbounded.
HasRoomAlways(q) == TRUE

\* A send on the buffered channel make(chan LogLine, 100) completes only while
\* the buffer holds fewer lines than its capacity.
HasRoom(q) == Len(q) < QueueCap

\* ch <- LogLine{...}: completes when the stream's queue has room.
TailSend(t) ==
  /\ tpc[t] = "send" /\ ~Crashed
  /\ HasRoom(queue[ChanOf(t)])
  /\ queue' = [queue EXCEPT ![ChanOf(t)] = Append(@, pending[t])]
  /\ emitted' = [emitted EXCEPT ![t] = Append(@, pending[t])]
  /\ pending' = [pending EXCEPT ![t] = NoLine]
  /\ tpc' = [tpc EXCEPT ![t] = "loop"]
  /\ UNCHANGED <<f, pos, partial, currentInode, retryTick, opened, closed, cancelled>>
  /\ UNCHANGED <<cfgVars, fsVars, dispVars, stdinVars>>

(* ------------------------------ parseLine ------------------------------ *)
Hostname == "host"

\* The values of an Event (map[string]interface{}): an int, a float64 with an
\* integral value, a float64 given by its text (a fraction, NaN), a string.
IntVal(n) == [kind |-> "int", num |-> n, text |-> ""]
FloatVal(n) == [kind |-> "float", num |-> n, text |-> ""]
FloatText(t) == [kind |-> "float", num |-> 0, text |-> t]
StrVal(s) == [kind |-> "string", num |-> 0, text |-> s]

\* event[k] = v on a map.
Put(m, k, v) == [x \in DOMAIN m \cup {k} |-> IF x = k THEN v ELSE m[x]]

\* A nil Event; src is where the line came from (history, not in the map).
NoEvent == [m |-> EmptyMap, src |-> <<0, 0, 0>>]

\* The decimal numerals that occur in lines and formats, with their values.
Decimal ==
  ("0" :> 0) @@ ("1" :> 1) @@ ("2" :> 2) @@ ("3" :> 3) @@ ("9" :> 9) @@ ("10" :> 10)
    @@ ("200" :> 200) @@ ("2326" :> 2326)
\* A numeral too large for an int64.
OutOfRange == "99999999999999999999"

\* strconv.Atoi(s): the value; on a range error the largest int with the error
\* set, on a syntax error 0 with the error set.
Atoi(s) ==
  IF s \in DOMAIN Decimal THEN [err |-> FALSE, val |-> Decimal[s]]
  ELSE IF s = OutOfRange THEN [err |-> TRUE, val |-> MaxInt64]
  ELSE [err |-> TRUE, val |-> 0]

\* strconv.ParseInt(s, 10, 64): as Atoi, the int having 64 bits.
ParseInt(s) == Atoi(s)

\* strconv.ParseFloat(s, 64): accepts decimal numbers and also NaN; 0 with the
\* error set on a syntax error.
ParseFloat(s) ==
  IF s \in DOMAIN Decimal THEN [err |-> FALSE, val |-> FloatVal(Decimal[s])]
  ELSE IF s \in {"1.5", "NaN", OutOfRange} THEN [err |-> FALSE, val |-> FloatText(s)]
  ELSE [err |-> TRUE, val |-> FloatVal(0)]

\* regexp.Compile(format.Pattern) succeeds: no unclosed parenthesis.
Compiles(pattern) == \A k \in 1..Len(pattern) : pattern[k] # "("

\* The pattern matches the tokens of the line that start at position i.
MatchAt(pattern, line, i) ==
  /\ i + Len(pattern) - 1 <= Len(line)
  /\ \A k \in 1..Len(pattern) : pattern[k] = Group \/ pattern[k] = line[i + k - 1]

\* regex.FindStringSubmatch(line): nil (the empty sequence) when the pattern
\* matches nowhere; else, for the leftmost match, the matched text (its first
\* token here; the code never reads it) followed by what each group captured.
\* Go's matches[n] is the (n+1)-th element.
FindStringSubmatch(pattern, line) ==
  IF \A i \in 1..Len(line) : ~MatchAt(pattern, line, i) THEN <<>>
  ELSE LET i == CHOOSE n \in 1..Len(line) :
                  MatchAt(pattern, line, n) /\ \A j \in 1..(n - 1) : ~MatchAt(pattern, line, j)
           groups == SelectSeq([k \in 1..Len(pattern) |-> k], LAMBDA k : pattern[k] = Group)
       IN <<line[i]>> \o [g \in 1..Len(groups) |-> line[i + groups[g] - 1]]

\* Mutant: no conversion, every captured value stays a string.
CoerceNone(field, value) == StrVal(value)

\* The switch on the field name: status and bytes become an int, rt a float,
\* when the captured text parses as one; otherwise the raw string stays.
Coerce(field, value) ==
  CASE field = "status" ->
         IF Atoi(value).err THEN StrVal(value) ELSE IntVal(Atoi(value).val)
    [] field = "bytes" ->
         IF ParseInt(value).err THEN StrVal(value) ELSE IntVal(ParseInt(value).val)
    [] field = "rt" ->
         IF ParseFloat(value).err THEN StrVal(value) ELSE ParseFloat(value).val
    [] OTHER -> StrVal(value)

\* One entry of format.Fields: the hostname, the file name, or the numbered
\* group's text; an entry that names no group of the match sets nothing.
SetField(event, field, groupName, matches, filename, hostname) ==
  IF groupName = "hostname" THEN Put(event, field, StrVal(hostname))
  ELSE IF groupName = "filename" THEN Put(event, field, StrVal(filename))
  ELSE LET groupNum == Atoi(groupName) IN
       IF ~groupNum.err /\ groupNum.val > 0 /\ groupNum.val < Len(matches)
       THEN Put(event, field, Coerce(field, matches[groupNum.val + 1]))
       ELSE event

RECURSIVE MapFields(_, _, _, _, _, _)
\* for field, groupName := range format.Fields, over the fields still to do.
MapFields(event, todo, fields, matches, filename, hostname) ==
  IF todo = {} THEN event
  ELSE LET field == CHOOSE x \in todo : TRUE
       IN MapFields(SetField(event, field, fields[field], matches, filename, hostname),
                    todo \ {field}, fields, matches, filename, hostname)

\* Mutant: the defaults are applied last and win over the captures.
parseCustomFormatDefaultsLast(line, filename, hostname, format) ==
  IF format = NoFormat \/ format.Pattern = <<>> \/ ~Compiles(format.Pattern)
  THEN [ok |-> FALSE, event |-> EmptyMap]
  ELSE LET matches == FindStringSubmatch(format.Pattern, line) IN
       IF matches = <<>> THEN [ok |-> FALSE, event |-> EmptyMap]
       ELSE LET mapped == MapFields(EmptyMap, DOMAIN format.Fields, format.Fields,
                                    matches, filename, hostname)
                all == [k \in DOMAIN mapped \cup DOMAIN format.Default |->
                          IF k \in DOMAIN format.Default THEN format.Default[k] ELSE mapped[k]]
            IN [ok |-> TRUE,
                event |-> IF "host" \in DOMAIN all THEN all
                          ELSE Put(all, "host", StrVal(hostname))]

\* parseCustomFormat: no format, an empty or invalid pattern and a line the
\* pattern does not match all give (nil, false); a match gives the defaults,
\* overwritten by the mapped fields, with host set when nothing set it (and
\* src set to the file name when mapped to it and still unset).
parseCustomFormat(line, filename, hostname, format) ==
  IF format = NoFormat \/ format.Pattern = <<>> THEN [ok |-> FALSE, event |-> EmptyMap]
  ELSE IF ~Compiles(format.Pattern) THEN [ok |-> FALSE, event |-> EmptyMap]
  ELSE LET matches == FindStringSubmatch(format.Pattern, line) IN
       IF matches = <<>> THEN [ok |-> FALSE, event |-> EmptyMap]
       ELSE LET mapped == MapFields(format.Default, DOMAIN format.Fields, format.Fields,
                                    matches, filename, hostname)
                hosted == IF "host" \in DOMAIN mapped THEN mapped
                          ELSE Put(mapped, "host", StrVal(hostname))
                sourced == IF /\ "src" \notin DOMAIN hosted
                              /\ "src" \in DOMAIN format.Fields
                              /\ format.Fields["src"] = "filename"
                           THEN Put(hosted, "src", StrVal(filename))
                           ELSE hosted
            IN [ok |-> TRUE, event |-> sourced]

\* A member value of a JSON object as json.Unmarshal decodes it into
\* interface{}: a number becomes a float64, anything else here is a string.
Decode(tok) == IF tok \in DOMAIN Decimal THEN FloatVal(Decimal[tok]) ELSE StrVal(tok)

\* json.Unmarshal([]byte(line), &m) with m a map: err is set unless the line is
\* a JSON object or the JSON value null; null leaves m nil; an object, written
\* { key value key value ... }, gives its members, a repeated key keeping its
\* last value.
Unmarshal(line) ==
  IF line = <<"null">> THEN [err |-> FALSE, nil |-> TRUE, members |-> EmptyMap]
  ELSE IF /\ Len(line) >= 2 /\ line[1] = "{" /\ line[Len(line)] = "}"
          /\ Len(line) % 2 = 0
       THEN LET n == (Len(line) - 2) \div 2
                last(k) == CHOOSE i \in 1..n :
                             line[2 * i] = k /\ \A j \in (i + 1)..n : line[2 * j] # k
            IN [err |-> FALSE, nil |-> FALSE,
                members |-> [k \in {line[2 * i] : i \in 1..n} |-> Decode(line[2 * last(k) + 1])]]
       ELSE [err |-> TRUE, nil |-> TRUE, members |-> EmptyMap]

\* An access-log line is its fields in order: client, ident, user, timestamp,
\* method, path, status, bytes, then referer and user agent, then the response time.
NoEntry == [Host |-> "", Path |-> "", Method |-> "", Status |-> 0, RT |-> FloatVal(0),
            Bytes |-> 0, Src |-> "", UserAgent |-> ""]
\* \[([^\]]+)\]: a timestamp in brackets.
IsTimestamp(tok) == tok = "[ts]"
\* (\d+): digits only.
IsDigits(tok) == tok \in DOMAIN Decimal \cup {OutOfRange}
\* "([^"]*)": a quoted string.
IsQuoted(tok) == tok \in {"\"-\"", "\"ua\""}
\* ([0-9.]+): digits and dots.
IsDigitsAndDots(tok) == IsDigits(tok) \/ tok \in {"1.5", "1.2.3"}

\* commonLogRegex matches: the line starts with the eight fields of the format.
MatchesCommon(line) ==
  /\ Len(line) >= 8
  /\ IsTimestamp(line[4])
  /\ IsDigits(line[7])
\* combinedLogRegex matches: the common fields, then referer and user agent.
MatchesCombined(line) ==
  /\ MatchesCommon(line)
  /\ Len(line) >= 10
  /\ IsQuoted(line[9]) /\ IsQuoted(line[10])
\* nginxWithRTRegex matches: the combined fields, then the response time.
MatchesNginxWithRT(line) ==
  /\ MatchesCombined(line)
  /\ Len(line) >= 11
  /\ IsDigitsAndDots(line[11])

\* parseAccessLog: the most detailed format first; the errors of the numeric
\* conversions are dropped (status, _ := strconv.Atoi(...)).
parseAccessLog(line, filename, hostname) ==
  IF MatchesNginxWithRT(line)
  THEN [ok |-> TRUE,
        entry |-> [Host |-> hostname, Path |-> line[6], Method |-> line[5],
                   Status |-> Atoi(line[7]).val, RT |-> ParseFloat(line[11]).val,
                   Bytes |-> ParseInt(line[8]).val, Src |-> line[1], UserAgent |-> line[10]]]
  ELSE IF MatchesCombined(line)
  THEN [ok |-> TRUE,
        entry |-> [Host |-> hostname, Path |-> line[6], Method |-> line[5],
                   Status |-> Atoi(line[7]).val, RT |-> FloatVal(0),
                   Bytes |-> ParseInt(line[8]).val, Src |-> line[1], UserAgent |-> line[10]]]
  ELSE IF MatchesCommon(line)
  THEN [ok |-> TRUE,
        entry |-> [Host |-> hostname, Path |-> line[6], Method |-> line[5],
                   Status |-> Atoi(line[7]).val, RT |-> FloatVal(0),
                   Bytes |-> ParseInt(line[8]).val, Src |-> line[1], UserAgent |-> ""]]
  ELSE [ok |-> FALSE, entry |-> NoEntry]

\* json.Marshal(entry) then json.Unmarshal(data, &event): the members of the
\* struct by their JSON names, every number a float64, user_agent left out
\* when empty (omitempty), ts left out since it is never set.
EntryEvent(entry) ==
  LET always == ("host" :> StrVal(entry.Host)) @@ ("path" :> StrVal(entry.Path))
                  @@ ("method" :> StrVal(entry.Method)) @@ ("status" :> FloatVal(entry.Status))
                  @@ ("rt" :> entry.RT) @@ ("bytes" :> FloatVal(entry.Bytes))
                  @@ ("src" :> StrVal(entry.Src))
  IN IF entry.UserAgent = "" THEN always
     ELSE Put(always, "user_agent", StrVal(entry.UserAgent))

\* Mutant: host is set whatever the object holds.
EnsureHostOverwrite(m, host) == Put(m, "host", StrVal(host))

\* if _, hasHost := m["host"]; !hasHost { m["host"] = host }
EnsureHost(m, host) == IF "host" \in DOMAIN m THEN m ELSE Put(m, "host", StrVal(host))

\* m["host"] = host on the map Unmarshal left: panics when the map is nil
\* (a nil map has no host member, so the write is always attempted).
NilMapWrite(m) == m.nil

\* Mutant: JSON is tried before the custom format.
parseLineJSONFirst(ll, host, customFormat) ==
  LET c == parseCustomFormat(ll.line, ll.file, host, customFormat)
      m == Unmarshal(ll.line)
      a == parseAccessLog(ll.line, ll.file, host)
  IN IF ~m.err
     THEN IF NilMapWrite(m)
          THEN [ok |-> FALSE, ev |-> NoEvent, panic |-> TRUE]
          ELSE [ok |-> TRUE, ev |-> [m |-> EnsureHost(m.members, host), src |-> ll.src],
                panic |-> FALSE]
     ELSE IF customFormat # NoFormat /\ c.ok
     THEN [ok |-> TRUE, ev |-> [m |-> c.event, src |-> ll.src], panic |-> FALSE]
     ELSE IF a.ok
     THEN [ok |-> TRUE, ev |-> [m |-> EntryEvent(a.entry), src |-> ll.src], panic |-> FALSE]
     ELSE [ok |-> FALSE, ev |-> NoEvent, panic |-> FALSE]

\* parseLine: custom format, then JSON, then access log, else skipped. panic
\* is set when the call does not return.
parseLine(ll, host, customFormat) ==
  LET c == parseCustomFormat(ll.line, ll.file, host, customFormat)
      m == Unmarshal(ll.line)
      a == parseAccessLog(ll.line, ll.file, host)
  IN IF customFormat # NoFormat /\ c.ok
     THEN [ok |-> TRUE, ev |-> [m |-> c.event, src |-> ll.src], panic |-> FALSE]
     ELSE IF ~m.err
     THEN IF NilMapWrite(m)
          THEN [ok |-> FALSE, ev |-> NoEvent, panic |-> TRUE]
          ELSE [ok |-> TRUE,
                ev |-> [m |-> EnsureHost(m.members, host), src |-> ll.src],
                panic |-> FALSE]
     ELSE IF a.ok
     THEN [ok |-> TRUE, ev |-> [m |-> EntryEvent(a.entry), src |-> ll.src], panic |-> FALSE]
     ELSE [ok |-> FALSE, ev |-> NoEvent, panic |-> FALSE]

(* ------------------------------- discover ------------------------------ *)
\* The files that may exist when discover runs, in the order Glob lists them.
DiskFiles == <<"a.gz", "a.log", "b.log">>

\* The glob patterns of the configurations and, for each, the names it
\* matches; "[" is malformed (doublestar.ErrBadPattern).
GlobTable ==
  ("*.log" :> {"a.log", "b.log"}) @@ ("a.*" :> {"a.gz", "a.log"}) @@
  ("b.log" :> {"b.log"}) @@ ("a.gz" :> {"a.gz"}) @@ ("*.txt" :> {}) @@ ("[" :> {})
ValidatePattern(p) == p # "["

\* doublestar.Match(pattern, name)
Match(pattern, name) ==
  IF ValidatePattern(pattern)
  THEN [ok |-> name \in GlobTable[pattern], err |-> FALSE]
  ELSE [ok |-> FALSE, err |-> TRUE]

\* doublestar.FilepathGlob(pattern) on a disk holding the files of disk.
FilepathGlob(pattern, disk) ==
  IF ValidatePattern(pattern)
  THEN [matches |-> SelectSeq(DiskFiles, LAMBDA x : x \in disk /\ Match(pattern, x).ok),
        err |-> FALSE]
  ELSE [matches |-> <<>>, err |-> TRUE]

excludedNever(m, patterns) == FALSE

\* excluded(path, patterns): some pattern matches the path m without an error.
excluded(m, patterns) ==
  \E i \in 1..Len(patterns) :
    LET r == Match(patterns[i], m) IN ~r.err /\ r.ok

\* The inner loops of discover: files grows by the matches of each include
\* pattern that are not excluded; a pattern Glob rejects is skipped.
RECURSIVE GlobAll(_, _, _, _)
GlobAll(files, patterns, exclude, disk) ==
  IF patterns = <<>> THEN files
  ELSE LET r == FilepathGlob(Head(patterns), disk)
           kept == IF r.err THEN <<>>
                   ELSE SelectSeq(r.matches, LAMBDA x : ~excluded(x, exclude))
       IN GlobAll(files \o kept, Tail(patterns), exclude, disk)

\* The outer loop of discover: a mapping for each stream with some file.
RECURSIVE MapStreams(_, _, _)
MapStreams(mappings, streams, disk) ==
  IF streams = <<>> THEN mappings
  ELSE LET stream == Head(streams)
           files == GlobAll(<<>>, stream.Paths, stream.Exclude, disk)
       IN MapStreams(IF Len(files) > 0
                     THEN Append(mappings, [Stream |-> stream, Files |-> files])
                     ELSE mappings,
                     Tail(streams), disk)

\* discover(cfg) on a disk holding the files of disk: the mappings, and the
\* error, which is always nil.
discover(cfg, disk) == [mappings |-> MapStreams(<<>>, cfg.Streams, disk), err |-> FALSE]

\* A StreamConfig as the configuration file gives it.
StreamConfig(name, id, paths, exclude) ==
  [Name |-> name, StreamID |-> id, Paths |-> paths, Exclude |-> exclude]

\* Include and exclude lists: empty, of one pattern, and of two with a
\* malformed pattern first or last and with two patterns matching one file.
IncludeLists ==
  {<<>>, <<"*.log">>, <<"a.*">>, <<"[">>, <<"*.txt">>, <<"[", "*.log">>,
   <<"a.*", "*.log">>, <<"b.log", "[">>}
ExcludeLists == {<<>>, <<"b.log">>, <<"[">>, <<"[", "a.*">>}
\* The first stream of a configuration: any lists, with or without identifier.
FirstStreams ==
  {StreamConfig("s1", id, inc, exc) :
     id \in {"", "s1"}, inc \in IncludeLists, exc \in ExcludeLists}
\* The streams that may follow it.
NextStreams ==
  {StreamConfig("s2", "s2", <<"[", "a.*">>, <<"[", "a.gz">>),
   StreamConfig("s2", "", <<"b.log">>, <<>>),
   StreamConfig("s2", "s2", <<"*.txt">>, <<>>)}
Configs ==
  {[Streams |-> <<>>]} \cup {[Streams |-> <<s>>] : s \in FirstStreams}
    \cup {[Streams |-> <<s, n>>] : s \in FirstStreams, n \in NextStreams}
\* The disk: empty, without a.log, and with every file.
Disks == {{}, {"a.gz", "b.log"}, {"a.gz", "a.log", "b.log"}}

(* ------------------------------- updater ------------------------------- *)
\* A version string is the sequence of its pieces: a leading v, numerals,
\* words and dots. strings.TrimPrefix(s, "v"):
TrimPrefix(s) == IF s # <<>> /\ Head(s) = "v" THEN Tail(s) ELSE s

\* strings.Split(s, "."): the parts between the dots, at least one.
RECURSIVE Split(_)
Split(s) ==
  IF \A i \in 1..Len(s) : s[i] # "." THEN <<s>>
  ELSE LET k == CHOOSE i \in 1..Len(s) : s[i] = "." /\ \A j \in 1..(i - 1) : s[j] # "."
       IN <<SubSeq(s, 1, k - 1)>> \o Split(SubSeq(s, k + 1, Len(s)))

\* strconv.Atoi of a part: a part that is empty or has several pieces is no
\* numeral.
AtoiPart(part) == IF Len(part) = 1 THEN Atoi(part[1]) ELSE [err |-> TRUE, val |-> 0]

\* The loop of compareVersions from index i on: the first component that
\* fails to convert ends it with an error, the first that differs decides.
RECURSIVE CompareFrom(_, _, _, _)
CompareFrom(i, currentParts, latestParts, maxLen) ==
  IF i >= maxLen THEN [ok |-> FALSE, err |-> ""]
  ELSE LET currentVal == IF i < Len(currentParts) THEN AtoiPart(currentParts[i + 1])
                         ELSE [err |-> FALSE, val |-> 0]
           latestVal == IF i < Len(latestParts) THEN AtoiPart(latestParts[i + 1])
                        ELSE [err |-> FALSE, val |-> 0]
       IN IF currentVal.err THEN [ok |-> FALSE, err |-> "invalid current version format"]
          ELSE IF latestVal.err THEN [ok |-> FALSE, err |-> "invalid latest version format"]
          ELSE IF latestVal.val > currentVal.val THEN [ok |-> TRUE, err |-> ""]
          ELSE IF latestVal.val < currentVal.val THEN [ok |-> FALSE, err |-> ""]
          ELSE CompareFrom(i + 1, currentParts, latestParts, maxLen)

\* compareVersions(current, latest): whether an update is available, and the
\* error ("" for nil).
compareVersions(current, latest) ==
  LET cur == TrimPrefix(current)
      lat == TrimPrefix(latest)
      currentParts == Split(cur)
      latestParts == Split(lat)
      maxLen == IF Len(latestParts) > Len(currentParts) THEN Len(latestParts)
                ELSE Len(currentParts)
  IN IF cur = <<"dev">> \/ cur = <<"unknown">> THEN [ok |-> TRUE, err |-> ""]
     ELSE CompareFrom(0, currentParts, latestParts, maxLen)

\* Version strings: dev, unknown, vdev, with and without v, of one to three
\* components, with a word, an empty component or a suffix for a component,
\* and the empty string.
Versions ==
  {<<"dev">>, <<"unknown">>, <<"v", "dev">>, <<>>,
   <<"v", "1", ".", "0">>, <<"1", ".", "0", ".", "0">>, <<"1", ".", "2">>,
   <<"v", "2">>, <<"1", ".", "10">>, <<"1", ".", "2", ".", "3">>,
   <<"1", ".", "x">>, <<"1", ".", ".", "2">>, <<"2", ".", "0", "-", "rc1">>}

(* ---------------------------- dispatch loop ---------------------------- *)
\* The mappings discovery returned, in the order of the configuration; main
\* makes a streamData (queue and batch) for each.
Mappings == SelectSeq(<<"s1", "s2">>, LAMBDA s : \E t \in active : StreamOf(t) = s)

\* The streamData that streamMap holds when main has set it up, which the
\* dispatch loop ranges over: streamMap[mapping.Stream.Name] = sd, so that a
\* later mapping of the same name takes the place of an earlier one.
Mapped ==
  {Mappings[i] : i \in {i \in 1..Len(Mappings) :
                          \A j \in (i + 1)..Len(Mappings) :
                            streamCfg[Mappings[j]].Name # streamCfg[Mappings[i]].Name}}

\* The network's answer to a request: no response at all (transport error or
\* timeout), or the status code of the response.
NoResponse == 0
Responses == {NoResponse, 101, 200, 301, 401}
\* The answers of a server that takes the batch or refuses the credential.
Answers == {200, 401}

\* The ingest base GetURL builds on.
DefaultBase == "https://app.tailstream.io"

\* StreamConfig.GetURL
GetURL(sc) ==
  IF sc.LegacyURL # "" THEN <<sc.LegacyURL>>
  ELSE <<DefaultBase, "/api/ingest/", sc.StreamID>>

\* What a request body is made of: the encoding of an object, or a newline.
Newline == [nl |-> TRUE, obj |-> EmptyMap]

\* json.Marshal(event): the object with its members; it fails on a float that
\* is NaN (unsupported value).
Marshal(ev) ==
  IF \E k \in DOMAIN ev.m : ev.m[k].kind = "float" /\ ev.m[k].text = "NaN"
  THEN [err |-> TRUE, data |-> <<>>]
  ELSE [err |-> FALSE, data |-> <<[nl |-> FALSE, obj |-> ev.m]>>]

RECURSIVE Body(_)
\* The NDJSON body: each event's encoding and a newline; an event whose
\* encoding fails is skipped (continue).
Body(events) ==
  IF events = <<>> THEN <<>>
  ELSE (IF Marshal(Head(events)).err THEN <<>> ELSE Marshal(Head(events)).data \o <<Newline>>)
       \o Body(Tail(events))

\* No Authorization header on the request.
NoHeader == <<>>

\* Mutant: the stream id is not checked.
shipEventsUnchecked(stream, globalKey, events, resp) ==
  LET key == IF stream.Key = "" THEN globalKey ELSE stream.Key
  IN [sent |-> TRUE, url |-> GetURL(stream),
      auth |-> IF key # "" THEN <<"Bearer ", key>> ELSE NoHeader,
      body |-> Body(events),
      resp |-> resp, err |-> (resp = NoResponse \/ resp >= 300)]

\* shipEvents(ctx, stream, globalKey, events), answered by resp: whether a
\* request was sent, its URL, Authorization header and body, and whether an
\* error is returned.
shipEvents(stream, globalKey, events, resp) ==
  IF stream.StreamID = ""
  THEN [sent |-> FALSE, url |-> <<>>, auth |-> NoHeader, body |-> <<>>,
        resp |-> NoResponse, err |-> TRUE]
  ELSE LET key == IF stream.Key = "" THEN globalKey ELSE stream.Key
       IN [sent |-> TRUE, url |-> GetURL(stream),
           auth |-> IF key # "" THEN <<"Bearer ", key>> ELSE NoHeader,
           body |-> Body(events),
           resp |-> resp, err |-> (resp = NoResponse \/ resp >= 300)]

\* shipEvents(ctx, sd.stream, "", sd.batch) as the dispatch loop and stdin mode
\* call it, with what it sent and what it returned.
ShipCall(s, events, resp) ==
  LET r == shipEvents(streamCfg[s], "", events, resp)
  IN [stream |-> s, events |-> events, ok |-> ~r.err, sent |-> r.sent,
      url |-> r.url, auth |-> r.auth, body |-> r.body, resp |-> r.resp]

\* Mutant: a failed batch is kept for another attempt.
AfterShipRetry(s, b, ok) == [batch EXCEPT ![s] = IF ok THEN <<>> ELSE b]

\* Mutant: a shipment empties the batch of every stream.
AfterShipAll(s, b, ok) == [u \in DOMAIN batch |-> <<>>]

\* sd.batch = sd.batch[:0] after the shipEvents call, whatever it returned.
AfterShip(s, b, ok) == [batch EXCEPT ![s] = <<>>]

\* Mutant: a shipment error is fatal (log.Fatalf).
AfterShipPcFatal(next, ok) == IF ok THEN next ELSE "returned"

\* if err := shipEvents(...); err != nil { log.Printf(...) }: the loop goes on.
AfterShipPc(next, ok) == next

\* Mutant: the event is put in front.
AppendEventFront(b, ev) == <<ev>> \o b

\* sd.batch = append(sd.batch, ev)
AppendEvent(b, ev) == Append(b, ev)

\* Mutant: off by one, the batch is shipped only when it exceeds the limit.
BatchFullLate(b) == Len(b) > BatchLimit

\* len(sd.batch) >= 100
BatchFull(b) == Len(b) >= BatchLimit

\* Mutant: the tick ships nothing.
FlushDueNever(s) == FALSE

\* Mutant: a per-batch deadline, the tick ships only batches a full period old.
FlushDueByAge(s) == Len(batch[s]) > 0 /\ age[s] >= FlushPeriod

\* if len(sd.batch) > 0, the tick's test before shipping.
FlushDue(s) == Len(batch[s]) > 0

\* A batch that became empty has no age.
AgeAfter(s) == [age EXCEPT ![s] = IF batch'[s] = <<>> THEN 0 ELSE @]

\* Mutant: the range loop stops after its first stream.
LoopNextFirst(s, next) == "select"

\* The range loop ends when every stream of streamMap was visited.
LoopNext(s, next) == IF visited \cup {s} = Mapped THEN "select" ELSE next

\* One clock unit passes; the dispatch ticker fires every FlushPeriod units.
Advance ==
  /\ dpc \notin {"returned", "crashed"}
  /\ phase' = (phase + 1) % FlushPeriod
  /\ flushTick' = (flushTick \/ phase' = 0)
  /\ age' = [s \in AllStreams |->
               IF batch[s] = <<>> THEN 0
               ELSE IF age[s] < FlushPeriod THEN age[s] + 1 ELSE age[s]]
  /\ UNCHANGED <<batch, taken, requests, dpc, visited>>
  /\ UNCHANGED <<cfgVars, fsVars, tailVars, cancelled, queue, stdinVars>>

\* case <-ticker.C
DispatchTick ==
  /\ mode = "file" /\ dpc = "select" /\ flushTick
  /\ flushTick' = FALSE
  /\ dpc' = "tick" /\ visited' = {}
  /\ UNCHANGED <<batch, taken, requests, phase, age>>
  /\ UNCHANGED <<cfgVars, fsVars, tailVars, cancelled, queue, stdinVars>>

\* One iteration of the tick's range over streamMap.
FlushStream(s, resp) ==
  /\ mode = "file" /\ dpc = "tick" /\ s \in Mapped \ visited
  /\ IF FlushDue(s)
     THEN /\ requests' = Append(requests, ShipCall(s, batch[s], resp))
          /\ batch' = AfterShip(s, batch[s], ShipCall(s, batch[s], resp).ok)
          /\ dpc' = AfterShipPc(LoopNext(s, "tick"), ShipCall(s, batch[s], resp).ok)
     ELSE /\ UNCHANGED <<batch, requests>>
          /\ dpc' = LoopNext(s, "tick")
  /\ visited' = visited \cup {s}
  /\ age' = AgeAfter(s)
  /\ UNCHANGED <<taken, flushTick, phase>>
  /\ UNCHANGED <<cfgVars, fsVars, tailVars, cancelled, queue, stdinVars>>

\* case <-ctx.Done(): wg.Wait()
DispatchDone ==
  /\ mode = "file" /\ dpc = "select" /\ cancelled
  /\ dpc' = "wait"
  /\ UNCHANGED <<batch, taken, requests, visited, flushTick, phase, age>>
  /\ UNCHANGED <<cfgVars, fsVars, tailVars, cancelled, queue, stdinVars>>

\* Mutant: main does not wait for the tailer goroutines.
WaitGroupDoneEarly == TRUE

\* wg.Wait() returns: every goroutine counted by wg.Add(1) has run wg.Done().
WaitGroupDone == \A t \in active : tpc[t] = "done"

\* Mutant: main ships what the batches still hold before it returns.
WaitReturnFlush ==
  /\ mode = "file" /\ dpc = "wait"
  /\ WaitGroupDone
  /\ dpc' = "returned"
  /\ IF \E s \in Mapped : batch[s] # <<>>
     THEN LET s == CHOOSE s \in Mapped : batch[s] # <<>>
          IN /\ requests' = Append(requests, ShipCall(s, batch[s], 200))
             /\ batch' = AfterShip(s, batch[s], TRUE)
     ELSE UNCHANGED <<batch, requests>>
  /\ UNCHANGED <<taken, visited, flushTick, phase, age>>
  /\ UNCHANGED <<cfgVars, fsVars, tailVars, cancelled, queue, stdinVars>>

\* wg.Wait() returns when every tailer goroutine has returned; main returns.
WaitReturn ==
  /\ mode = "file" /\ dpc = "wait"
  /\ WaitGroupDone
  /\ dpc' = "returned"
  /\ UNCHANGED <<batch, taken, requests, visited, flushTick, phase, age>>
  /\ UNCHANGED <<cfgVars, fsVars, tailVars, cancelled, queue, stdinVars>>

\* default: of the outer select, taken when neither channel is ready.
DispatchDefault ==
  /\ mode = "file" /\ dpc = "select" /\ ~flushTick /\ ~cancelled
  /\ dpc' = "pass" /\ visited' = {}
  /\ UNCHANGED <<batch, taken, requests, flushTick, phase, age>>
  /\ UNCHANGED <<cfgVars, fsVars, tailVars, cancelled, queue, stdinVars>>

\* A received line: parse, append, and ship when the batch is full.
\* `next` is where the loop goes on.
OnLine(s, ll, resp, next) ==
  LET r == parseLine(ll, Hostname, streamCfg[s].Format)
      b == AppendEvent(batch[s], r.ev)
  IN IF r.panic
     THEN /\ dpc' = "crashed"
          /\ UNCHANGED <<batch, requests>>
     ELSE IF r.ok /\ r.ev # NoEvent
     THEN IF BatchFull(b)
          THEN /\ requests' = Append(requests, ShipCall(s, b, resp))
               /\ batch' = AfterShip(s, b, ShipCall(s, b, resp).ok)
               /\ dpc' = AfterShipPc(next, ShipCall(s, b, resp).ok)
          ELSE /\ batch' = [batch EXCEPT ![s] = b]
               /\ dpc' = next
               /\ UNCHANGED requests
     ELSE /\ dpc' = next
          /\ UNCHANGED <<batch, requests>>

\* One iteration of the pass over streamMap: a non-blocking receive on sd.lines.
TakeLine(s, resp) ==
  /\ mode = "file" /\ dpc = "pass" /\ s \in Mapped \ visited
  /\ IF queue[s] # <<>>
     THEN /\ queue' = [queue EXCEPT ![s] = Tail(@)]
          /\ taken' = [taken EXCEPT ![s] = Append(@, Head(queue[s]))]
          /\ OnLine(s, Head(queue[s]), resp, LoopNext(s, "pass"))
     ELSE /\ dpc' = LoopNext(s, "pass")
          /\ UNCHANGED <<queue, taken, batch, requests>>
  /\ visited' = visited \cup {s}
  /\ age' = AgeAfter(s)
  /\ UNCHANGED <<flushTick, phase>>
  /\ UNCHANGED <<cfgVars, fsVars, tailVars, cancelled, stdinVars>>

\* The hosting process raises the shared shutdown signal: cancel().
Cancel ==
  /\ mode = "file" /\ ~cancelled /\ dpc \notin {"returned", "crashed"}
  /\ cancelled' = TRUE
  /\ UNCHANGED <<cfgVars, fsVars, tailVars, queue, dispVars, stdinVars>>

(* ------------------------------ stdin mode ----------------------------- *)
\* scanner.Text(): the line without its terminator (one trailing \r dropped).
ScanText(raw) ==
  LET a == IF raw # <<>> /\ raw[Len(raw)] = "\n" THEN SubSeq(raw, 1, Len(raw) - 1) ELSE raw
  IN IF a # <<>> /\ a[Len(a)] = "\r" THEN SubSeq(a, 1, Len(a) - 1) ELSE a

\* The reader goroutine: lines <- scanner.Text()
StdinScan ==
  /\ mode = "stdin" /\ ~linesClosed
  /\ stdin # <<>>
  /\ HasRoom(queue[StdinStream])
  /\ queue' = [queue EXCEPT ![StdinStream] =
                 Append(@, [file |-> "stdin", line |-> ScanText(Head(stdin)),
                            src |-> <<0, 0, written + 1>>])]
  /\ stdin' = Tail(stdin)
  /\ written' = written + 1
  /\ UNCHANGED <<path, content, perm, faults, stat, linesClosed>>
  /\ UNCHANGED <<cfgVars, tailVars, cancelled, dispVars>>

\* The reader goroutine at end of input: close(lines)
StdinClose ==
  /\ mode = "stdin" /\ ~linesClosed
  /\ stdin = <<>>
  /\ linesClosed' = TRUE
  /\ UNCHANGED <<cfgVars, fsVars, tailVars, cancelled, queue, dispVars, stdin>>

\* case <-ticker.C
StdinTick(resp) ==
  /\ mode = "stdin" /\ dpc = "select" /\ flushTick
  /\ flushTick' = FALSE
  /\ IF FlushDue(StdinStream)
     THEN /\ requests' = Append(requests, ShipCall(StdinStream, batch[StdinStream], resp))
          /\ batch' = AfterShip(StdinStream, batch[StdinStream],
                                ShipCall(StdinStream, batch[StdinStream], resp).ok)
          /\ dpc' = AfterShipPc("select", ShipCall(StdinStream, batch[StdinStream], resp).ok)
     ELSE UNCHANGED <<batch, requests, dpc>>
  /\ age' = AgeAfter(StdinStream)
  /\ UNCHANGED <<taken, visited, phase>>
  /\ UNCHANGED <<cfgVars, fsVars, tailVars, cancelled, queue, stdinVars>>

\* case line, ok := <-lines, with a line
StdinLine(resp) ==
  /\ mode = "stdin" /\ dpc = "select"
  /\ queue[StdinStream] # <<>>
  /\ queue' = [queue EXCEPT ![StdinStream] = Tail(@)]
  /\ taken' = [taken EXCEPT ![StdinStream] = Append(@, Head(queue[StdinStream]))]
  /\ OnLine(StdinStream, Head(queue[StdinStream]), resp, "select")
  /\ age' = AgeAfter(StdinStream)
  /\ UNCHANGED <<visited, flushTick, phase>>
  /\ UNCHANGED <<cfgVars, fsVars, tailVars, cancelled, stdinVars>>

\* case line, ok := <-lines on the closed, drained channel: running = false
StdinClosed ==
  /\ mode = "stdin" /\ dpc = "select"
  /\ queue[StdinStream] = <<>> /\ linesClosed
  /\ dpc' = "final"
  /\ UNCHANGED <<batch, taken, requests, visited, flushTick, phase, age>>
  /\ UNCHANGED <<cfgVars, fsVars, tailVars, cancelled, queue, stdinVars>>

\* Mutant: runStdinMode returns without the final shipment.
StdinFinalNoShip(resp) ==
  /\ mode = "stdin" /\ dpc = "final"
  /\ dpc' = "returned"
  /\ UNCHANGED <<batch, taken, requests, visited, flushTick, phase, age>>
  /\ UNCHANGED <<cfgVars, fsVars, tailVars, cancelled, queue, stdinVars>>

\* Ship any remaining events after stdin closes; runStdinMode returns.
StdinFinal(resp) ==
  /\ mode = "stdin" /\ dpc = "final"
  /\ IF Len(batch[StdinStream]) > 0
     THEN requests' = Append(requests, ShipCall(StdinStream, batch[StdinStream], resp))
     ELSE UNCHANGED requests
  /\ dpc' = "returned"
  /\ UNCHANGED <<batch, taken, visited, flushTick, phase, age>>
  /\ UNCHANGED <<cfgVars, fsVars, tailVars, cancelled, queue, stdinVars>>

(* ---------------------------- specifications --------------------------- *)
\* Files present when the agent starts hold nothing or one earlier line.
InitialContents == { <<>>, << <<"{", "}", "\n">> >> }
EmptyFiles == { <<>> }
Readable == {[p \in Paths |-> TRUE]}

\* What every run starts from, whatever the mode.
InitCommon ==
  /\ written = 0
  /\ faults = 0
  /\ tpc = [t \in Tailers |-> "start"]
  /\ f = [t \in Tailers |-> NoInode]
  /\ pos = [t \in Tailers |-> NoReader]
  /\ partial = [t \in Tailers |-> 0]
  /\ currentInode = [t \in Tailers |-> NoInode]
  /\ retryTick = [t \in Tailers |-> FALSE]
  /\ pending = [t \in Tailers |-> NoLine]
  /\ emitted = [t \in Tailers |-> <<>>]
  /\ opened = [t \in Tailers |-> <<>>]
  /\ closed = [t \in Tailers |-> <<>>]
  /\ cancelled = FALSE
  /\ queue = [s \in AllStreams |-> <<>>]
  /\ batch = [s \in AllStreams |-> <<>>]
  /\ taken = [s \in AllStreams |-> <<>>]
  /\ requests = <<>>
  /\ dpc = "select"
  /\ visited = {}
  /\ flushTick = FALSE
  /\ phase = 0
  /\ age = [s \in AllStreams |-> 0]
  /\ linesClosed = FALSE
  /\ call = NoCall

\* File mode after main has built streamMap and started the tailers in `act`;
\* the k-th tailer's file, when present, is inode k.
InitFilesWith(act, present, perms, contents, cfgs, keys, bases) ==
  LET num(t) == Cardinality({u \in act : u <= t}) IN
  /\ mode = "file"
  /\ active = act
  /\ streamCfg \in cfgs
  /\ cfgKey \in keys
  /\ baseEnv \in bases
  /\ content \in [1..Cardinality(act) -> contents]
  /\ stat = [i \in 1..Cardinality(act) |-> [Dev |-> LogDevice, Ino |-> i]]
  /\ path = [p \in Paths |->
               IF \E t \in present : FileOf(t) = p
               THEN num(CHOOSE t \in present : FileOf(t) = p)
               ELSE NoInode]
  /\ perm \in perms
  /\ stdin = <<>>
  /\ InitCommon

\* File mode with every stream configured by id only: no key, no URL override,
\* no custom format.
InitFiles(act, present, perms, contents) ==
  InitFilesWith(act, present, perms, contents, {DefaultStreams}, {""}, {""})

\* Stdin mode: standard input is a pipe holding some lines.
InitStdin ==
  /\ mode = "stdin"
  /\ active = {}
  /\ streamCfg = DefaultStreams
  /\ cfgKey = ""
  /\ baseEnv = ""
  /\ content = <<>>
  /\ stat = <<>>
  /\ path = [p \in Paths |-> NoInode]
  /\ perm = [p \in Paths |-> TRUE]
  /\ stdin \in UNION {[1..n -> RawLines] : n \in 0..MaxLines}
  /\ InitCommon

ActivePaths == {FileOf(t) : t \in active}

FileSystem ==
  \E p \in ActivePaths :
    \/ \E raw \in ParseLines : Write(p, raw) \/ WriteText(p, raw)
    \/ WriteNewline(p)
    \/ Rename(p)
    \/ Create(p)
    \/ Mount(p)
    \/ Chmod(p)

Tailer(t) ==
  \/ TailStart(t)
  \/ TailCancel(t)
  \/ TailTick(t)
  \/ TailReadLine(t)
  \/ TailReadErr(t)
  \/ TailSend(t)

DispatchLoop ==
  \/ DispatchTick
  \/ \E s \in Streams, resp \in Answers : FlushStream(s, resp)
  \/ DispatchDefault
  \/ \E s \in Streams, resp \in Answers : TakeLine(s, resp)

Shutdown ==
  \/ DispatchDone
  \/ WaitReturn

Dispatcher == DispatchLoop \/ Shutdown

StdinMode ==
  \/ StdinScan
  \/ StdinClose
  \/ \E resp \in Answers : StdinTick(resp)
  \/ \E resp \in Answers : StdinLine(resp)
  \/ StdinClosed
  \/ \E resp \in Answers : StdinFinal(resp)

Timers ==
  \/ Advance
  \/ \E t \in active : RetryTimer(t)

\* The whole agent in its whole environment.
Init ==
  \/ \E act \in SUBSET Tailers \ {{}} :
       \E present \in SUBSET act : InitFiles(act, present, [Paths -> BOOLEAN], InitialContents)
  \/ InitStdin

Next ==
  \/ FileSystem
  \/ \E t \in active : Tailer(t) \/ TailReadEOF(t)
  \/ Dispatcher
  \/ StdinMode
  \/ Timers
  \/ Cancel

Spec == Init /\ [][Next]_vars

(* Batching and shipping: both streams' files in place and readable, no      *)
(* rotation, no read error, no shutdown; or stdin mode.                      *)
InitDispatch ==
  \/ InitFiles(Tailers, Tailers, Readable, EmptyFiles)
  \/ InitStdin

NextDispatch ==
  \/ \E p \in ActivePaths, raw \in RawLines : Write(p, raw)
  \/ \E t \in active : TailStart(t) \/ TailReadLine(t) \/ TailSend(t)
  \/ DispatchLoop
  \/ StdinMode
  \/ Advance

SpecDispatch == InitDispatch /\ [][NextDispatch]_vars

(* The dispatch loop of file mode, never cancelled, with both streams' files  *)
(* being written.  The loop never blocks (every receive has a default), so   *)
(* it always takes its next step.  The ticker's period is long against the   *)
(* loop's own steps: during the handling of a tick time passes only in the   *)
(* shipEvents calls, and a loop that keeps finding no channel ready at its   *)
(* select takes the default case.                                            *)
Elapse ==
  /\ dpc = "tick" => \E s \in Mapped \ visited : FlushDue(s)
  /\ Advance

NextFair ==
  \/ \E p \in ActivePaths, raw \in RawLines : Write(p, raw)
  \/ \E t \in active : TailStart(t) \/ TailReadLine(t) \/ TailSend(t)
  \/ DispatchLoop
  \/ Elapse

SpecFair ==
  /\ InitFiles(Tailers, Tailers, Readable, EmptyFiles) /\ [][NextFair]_vars
  /\ WF_vars(DispatchLoop)
  /\ SF_vars(DispatchDefault)
  /\ WF_vars(Elapse)

(* One tailed file that is only appended to: present and readable from the   *)
(* start, never renamed, removed or failing to read.                         *)
InitAppend == InitFiles({1}, {1}, Readable, InitialContents)

Drain ==
  \/ DispatchDefault
  \/ \E s \in Streams, resp \in Answers : TakeLine(s, resp)

NextAppend ==
  \/ \E p \in ActivePaths, raw \in RawLines : Write(p, raw)
  \/ \E t \in active : TailStart(t) \/ TailTick(t) \/ TailReadLine(t) \/ TailSend(t)
  \/ \E t \in active : RetryTimer(t)
  \/ Drain

SpecAppend == InitAppend /\ [][NextAppend]_vars

(* One tailed file under rename-based rotation: the file is renamed away and *)
(* a new one created at the path, any number of times.                       *)
NextRotate ==
  \/ \E p \in ActivePaths : Rename(p) \/ Create(p)
  \/ NextAppend

SpecRotate == InitAppend /\ [][NextRotate]_vars

(* One tailed file whose path may come to name nothing, or a file of another *)
(* device.                                                                   *)
NextDevice ==
  \/ \E p \in ActivePaths : Mount(p) \/ Rename(p)
  \/ NextAppend

SpecDevice == InitAppend /\ [][NextDevice]_vars

(* One tailed file whose lines may be appended in two writes, the text and    *)
(* then the terminator.                                                      *)
NextTwoWrites ==
  \/ \E p \in ActivePaths : (\E raw \in RawLines : WriteText(p, raw)) \/ WriteNewline(p)
  \/ \E t \in active : TailReadEOF(t)
  \/ NextAppend

SpecTwoWrites == InitAppend /\ [][NextTwoWrites]_vars

(* Two streams with a file each, configured with different names or with the *)
(* same name; the dispatch loop without its ticker.                          *)
InitNames ==
  InitFilesWith(Tailers, Tailers, Readable, EmptyFiles, {DefaultStreams, SameNameStreams},
                {""}, {""})

NextNames ==
  \/ \E p \in ActivePaths, raw \in RawLines : Write(p, raw)
  \/ \E t \in active : TailStart(t) \/ TailReadLine(t) \/ TailSend(t)
  \/ Drain

SpecNames == InitNames /\ [][NextNames]_vars

(* Stdin mode on its own.  The reader goroutine runs when it can; of the      *)
(* cases of the loop's select that are ready, each is eventually chosen.     *)
NextStdin == StdinMode \/ Advance

SpecStdin ==
  /\ InitStdin /\ [][NextStdin]_vars
  /\ WF_vars(StdinScan \/ StdinClose)
  /\ WF_vars(\E resp \in Answers : StdinLine(resp))
  /\ WF_vars(StdinClosed)
  /\ WF_vars(\E resp \in Answers : StdinFinal(resp))

(* Shutdown: one tailed file, the dispatch loop without its ticker, and the  *)
(* cancellation signal.  Every goroutine that can run eventually does.       *)
InitShutdown == InitFiles({1}, {1}, Readable, EmptyFiles)

NextShutdown ==
  \/ \E p \in ActivePaths, raw \in RawLines : Write(p, raw)
  \/ \E t \in active : TailStart(t) \/ TailReadLine(t) \/ TailSend(t) \/ TailCancel(t)
  \/ Drain
  \/ Shutdown
  \/ Cancel

SpecShutdown ==
  /\ InitShutdown /\ [][NextShutdown]_vars
  /\ \A t \in Tailers : WF_vars(Tailer(t))
  /\ WF_vars(Dispatcher)

(* Shutdown of the whole dispatch loop: one tailed file, the ticker, and the *)
(* cancellation signal raised at any moment.                                 *)
NextStop ==
  \/ Advance
  \/ DispatchTick
  \/ \E s \in Streams, resp \in Answers : FlushStream(s, resp)
  \/ NextShutdown

SpecStop == InitShutdown /\ [][NextStop]_vars

(* Shutdown of a tailer with or without an open handle: the file may be      *)
(* renamed away before the signal is raised.                                 *)
NextCancel ==
  \/ \E p \in ActivePaths : Rename(p)
  \/ \E t \in active : TailTick(t) \/ RetryTimer(t)
  \/ NextShutdown

SpecCancel == InitShutdown /\ [][NextCancel]_vars

(* One tailed file under every fault: rotation, disappearance, permission    *)
(* changes, read errors, and the shutdown signal; the dispatch loop is not   *)
(* scheduled, so the tailer can also be held at a full queue.                *)
NextReconnect ==
  \/ \E p \in ActivePaths : Write(p, <<"x", "\r", "\n">>) \/ Rename(p) \/ Create(p) \/ Chmod(p)
  \/ \E t \in active : Tailer(t)
  \/ \E t \in active : RetryTimer(t)
  \/ Cancel

SpecReconnect == InitShutdown /\ [][NextReconnect]_vars

(* The normalizer on every kind of line and custom format: one tailed file   *)
(* whose stream is configured with any of the formats.                       *)
InitParse ==
  InitFilesWith({1}, {1}, Readable, EmptyFiles,
                {[DefaultStreams EXCEPT !["s1"].Format = fm] : fm \in Formats}, {""}, {""})

NextParse ==
  \/ \E p \in ActivePaths, raw \in ParseLines : Write(p, raw)
  \/ \E t \in active : TailStart(t) \/ TailReadLine(t) \/ TailSend(t)
  \/ Drain

SpecParse == InitParse /\ [][NextParse]_vars

(* The shipper under every configuration of one stream (id, key, URL         *)
(* override), of the fleet-wide key and of the base URL in the environment,  *)
(* and under every answer of the network.                                    *)
ShipConfigs ==
  {[DefaultStreams EXCEPT !["s1"] = [Name |-> "s1", StreamID |-> id, Key |-> k,
                                     LegacyURL |-> u,
                                     Format |-> NoFormat]] :
     id \in {"", "id1"}, k \in {"", "key1"}, u \in {"", "http://override"}}

InitShip ==
  InitFilesWith({1}, {1}, Readable, EmptyFiles, ShipConfigs,
                {"", "fleet-key"}, {"", "http://base"})

NextShip ==
  \/ \E p \in ActivePaths : Write(p, <<"{", "}", "\n">>)
  \/ \E t \in active : TailStart(t) \/ TailReadLine(t) \/ TailSend(t)
  \/ Advance
  \/ DispatchTick
  \/ \E s \in Streams, resp \in Responses : FlushStream(s, resp)
  \/ DispatchDefault
  \/ \E s \in Streams, resp \in Responses : TakeLine(s, resp)

SpecShip == InitShip /\ [][NextShip]_vars

(* The normalizer's functions applied on their own to every kind of line     *)
(* under every kind of custom format.                                        *)
\* Everything but the call under study.
agentVars ==
  <<mode, active, streamCfg, cfgKey, baseEnv, fsVars, tailVars, cancelled, queue,
    dispVars, stdinVars>>

\* The agent before it starts anything, and no function applied yet.
InitIdle == InitFiles({1}, {1}, Readable, EmptyFiles)

\* Access-log lines: common, combined and with response time; with a byte
\* count of -, with numerals out of range, with a status that is no number,
\* with a response time that is no number, and without a timestamp.
AccessLines ==
  { <<"ip", "-", "-", "[ts]", "GET", "/x", "200", "2326">>,
    <<"ip", "-", "-", "[ts]", "GET", "/x", "200", "-">>,
    <<"ip", "-", "-", "[ts]", "GET", "/x", "200", OutOfRange>>,
    <<"ip", "-", "-", "[ts]", "GET", "/x", OutOfRange, "2326">>,
    <<"ip", "-", "-", "[ts]", "GET", "/x", "abc", "2326">>,
    <<"ip", "-", "-", "ts", "GET", "/x", "200", "2326">>,
    <<"ip", "-", "-", "[ts]", "GET", "/x", "200", "2326", "\"-\"", "\"ua\"">>,
    <<"ip", "-", "-", "[ts]", "GET", "/x", "200", "2326", "\"-\"", "ua">>,
    <<"ip", "-", "-", "[ts]", "GET", "/x", "200", "2326", "\"-\"", "\"ua\"", "1.5">>,
    <<"ip", "-", "-", "[ts]", "GET", "/x", "200", "2326", "\"-\"", "\"ua\"", "1.2.3">>,
    <<"ip", "-", "-", "[ts]", "GET", "/x", "200", "2326", "\"-\"", "\"ua\"", "fast">> }

\* JSON lines: objects without and with a host member, with a repeated key,
\* a truncated object, the value null and a number.
JSONLines ==
  { <<"{", "}">>, <<"{", "a", "1", "}">>, <<"{", "host", "h2", "}">>,
    <<"{", "a", "1", "host", "h2", "}">>, <<"{", "a", "1", "a", "2", "}">>,
    <<"{", "a", "}">>, <<"null">>, <<"1">> }

\* Free-text lines, the empty line included.
TextLines ==
  { <<>>, <<"x">>, <<"INFO", ":", "started">>, <<"x", "200">>, <<"x", "abc">>,
    <<"x", "1.5">>, <<"x", "NaN">>, <<"x", OutOfRange>>, <<"say", "x", "9">> }

NormLines == AccessLines \cup JSONLines \cup TextLines

\* (\w+): (.+) with fields method, path and host.
KVFormat ==
  LogFormat(<<Group, ":", Group>>,
            ("method" :> "1") @@ ("path" :> "2") @@ ("host" :> "hostname"), EmptyMap)
\* x (\S+) with the one group mapped to each kind of field.
NumFormat ==
  LogFormat(<<"x", Group>>,
            ("status" :> "1") @@ ("bytes" :> "1") @@ ("rt" :> "1") @@ ("msg" :> "1"), EmptyMap)
\* x (\S+) with placeholders, mappings that name no group, and defaults for
\* mapped and unmapped fields.
MiscFormat ==
  LogFormat(<<"x", Group>>,
            ("src" :> "filename") @@ ("path" :> "1") @@ ("miss" :> "9") @@ ("zero" :> "0")
              @@ ("name" :> "user"),
            ("path" :> StrVal("/")) @@ ("miss" :> StrVal("dflt")) @@ ("env" :> StrVal("prod"))
              @@ ("host" :> StrVal("dhost")))
\* (\S+): matches every line but the empty one.
AnyFormat == LogFormat(<<Group>>, ("msg" :> "1"), ("status" :> IntVal(0)))

NormFormats == Formats \cup {KVFormat, NumFormat, MiscFormat, AnyFormat}

\* parseLine(ll, host, customFormat) on a line read from a.log.
CallParseLine(line, format) ==
  LET ll == [file |-> "a.log", line |-> line, src |-> <<0, 0, 0>>] IN
  /\ call' = [fn |-> "parseLine",
              args |-> [ll |-> ll, host |-> Hostname, customFormat |-> format],
              ret |-> parseLine(ll, Hostname, format)]
  /\ UNCHANGED agentVars

\* parseCustomFormat(line, filename, hostname, format)
CallParseCustomFormat(line, format) ==
  /\ call' = [fn |-> "parseCustomFormat",
              args |-> [line |-> line, filename |-> "a.log", hostname |-> Hostname,
                        format |-> format],
              ret |-> parseCustomFormat(line, "a.log", Hostname, format)]
  /\ UNCHANGED agentVars

\* parseAccessLog(line, filename, hostname)
CallParseAccessLog(line) ==
  /\ call' = [fn |-> "parseAccessLog",
              args |-> [line |-> line, filename |-> "a.log", hostname |-> Hostname],
              ret |-> parseAccessLog(line, "a.log", Hostname)]
  /\ UNCHANGED agentVars

NextNormalize ==
  \/ \E line \in NormLines, format \in NormFormats : CallParseLine(line, format)
  \/ \E line \in NormLines, format \in NormFormats : CallParseCustomFormat(line, format)
  \/ \E line \in NormLines : CallParseAccessLog(line)

SpecNormalize == InitIdle /\ [][NextNormalize]_vars

(* shipEvents applied on its own to every configuration of a stream, every   *)
(* batch of up to two events and every answer of the network.                *)
ShipBatches ==
  LET ev(n) == [m |-> ("n" :> IntVal(n)), src |-> <<1, 1, n>>]
  IN {<<>>, <<ev(1)>>, <<ev(1), ev(2)>>,
      <<[m |-> ("rt" :> FloatText("NaN")), src |-> <<1, 1, 3>>]>>}

CallShipEvents(stream, globalKey, events, resp) ==
  /\ call' = [fn |-> "shipEvents",
              args |-> [stream |-> stream, globalKey |-> globalKey, events |-> events],
              ret |-> shipEvents(stream, globalKey, events, resp)]
  /\ UNCHANGED agentVars

NextShipEvents ==
  \E cfg \in ShipConfigs, globalKey \in {"", "fleet-key"}, events \in ShipBatches,
     resp \in Responses :
    CallShipEvents(cfg["s1"], globalKey, events, resp)

SpecShipEvents == InitIdle /\ [][NextShipEvents]_vars

(* discover applied on its own to every configuration and disk.             *)
CallDiscover(cfg, disk) ==
  /\ call' = [fn |-> "discover", args |-> [cfg |-> cfg, disk |-> disk],
              ret |-> discover(cfg, disk)]
  /\ UNCHANGED agentVars

NextDiscover == \E cfg \in Configs, disk \in Disks : CallDiscover(cfg, disk)

SpecDiscover == InitIdle /\ [][NextDiscover]_vars

(* compareVersions applied on its own to every pair of versions.            *)
CallCompareVersions(current, latest) ==
  /\ call' = [fn |-> "compareVersions", args |-> [current |-> current, latest |-> latest],
              ret |-> compareVersions(current, latest)]
  /\ UNCHANGED agentVars

NextVersions == \E current \in Versions, latest \in Versions : CallCompareVersions(current, latest)

SpecVersions == InitIdle /\ [][NextVersions]_vars


(* ------------------------------ oauth poll ----------------------------- *)
\* The time pollForToken allows for the authorization (10 * time.Minute), in
\* units of the model's clock.
PollTimeout == 4
\* The polling intervals the device endpoint may give, in the same units.
Intervals == {0, 1, 2}

\* What one round gives: PostForm fails, Decode fails, or a TokenResponse.
RequestFailed == [kind |-> "request failed", Error |-> "", AccessToken |-> ""]
DecodeFailed == [kind |-> "decode failed", Error |-> "", AccessToken |-> ""]
TokenResponse(error, token) == [kind |-> "decoded", Error |-> error, AccessToken |-> token]
PollAnswers ==
  {RequestFailed, DecodeFailed,
   TokenResponse("authorization_pending", ""), TokenResponse("slow_down", ""),
   TokenResponse("access_denied", ""), TokenResponse("", "tok"), TokenResponse("", "")}

\* No round yet; and the nil *TokenResponse and the nil error.
NoAnswer == [kind |-> "none", Error |-> "", AccessToken |-> ""]
NoToken == [kind |-> "nil", Error |-> "", AccessToken |-> ""]
NoError == <<>>

\* Mutant: the loop has no deadline.
BeforeTimeoutAlways(left) == TRUE

\* time.Now().Before(timeout), of the time left until the deadline.
BeforeTimeout(left) == left > 0

\* pollForToken is running or has returned.
Polling == call.fn = "pollForToken"

\* pollForToken(deviceCode, interval) is called: timeout := now + 10 minutes.
PollStart(interval) ==
  /\ call = NoCall
  /\ call' = [fn |-> "pollForToken",
              args |-> [deviceCode |-> "dc", interval |-> interval], ret |-> <<>>,
              pc |-> "check", left |-> PollTimeout, sleep |-> 0, last |-> NoAnswer]
  /\ UNCHANGED agentVars

\* The loop condition: another round, or return nil, "authorization timeout".
PollCheck ==
  /\ Polling /\ call.pc = "check"
  /\ call' = IF BeforeTimeout(call.left)
             THEN [call EXCEPT !.pc = "post"]
             ELSE [call EXCEPT !.pc = "returned",
                               !.ret = [token |-> NoToken, err |-> <<"authorization timeout">>]]
  /\ UNCHANGED agentVars

\* One round: PostForm and Decode give ans; sleep and continue on a failure
\* and on authorization_pending, return on anything else.
PollAnswer(ans) ==
  /\ Polling /\ call.pc = "post"
  /\ call' =
       IF ans.kind # "decoded" \/ ans.Error = "authorization_pending"
       THEN [call EXCEPT !.pc = "sleep", !.last = ans,
                         !.sleep = IF call.args.interval > 0 THEN call.args.interval ELSE 0]
       ELSE IF ans.Error # ""
       THEN [call EXCEPT !.pc = "returned", !.last = ans,
                         !.ret = [token |-> NoToken, err |-> <<"oauth error: ", ans.Error>>]]
       ELSE [call EXCEPT !.pc = "returned", !.last = ans,
                         !.ret = [token |-> ans, err |-> NoError]]
  /\ UNCHANGED agentVars

\* time.Sleep returns.
PollWake ==
  /\ Polling /\ call.pc = "sleep" /\ call.sleep = 0
  /\ call' = [call EXCEPT !.pc = "check"]
  /\ UNCHANGED agentVars

\* One unit of time passes while pollForToken runs.
PollClock ==
  /\ Polling /\ call.pc # "returned"
  /\ call.left > 0 \/ call.sleep > 0
  /\ call' = [call EXCEPT !.left = IF @ > 0 THEN @ - 1 ELSE 0,
                          !.sleep = IF @ > 0 THEN @ - 1 ELSE 0]
  /\ UNCHANGED agentVars

PollStep == PollCheck \/ (\E ans \in PollAnswers : PollAnswer(ans)) \/ PollWake

NextPoll ==
  \/ \E interval \in Intervals : PollStart(interval)
  \/ PollStep
  \/ PollClock

\* Every request ends (the client's Timeout is 10 seconds) and time passes.
SpecPoll == InitIdle /\ [][NextPoll]_vars /\ WF_vars(PollStep) /\ WF_vars(PollClock)
(* ------------------------------ normalizer ----------------------------- *)
\* The custom step matches: a format is configured and its pattern is not
\* empty, compiles and occurs in the line.
CustomMatches(line, format) ==
  /\ format # NoFormat /\ format.Pattern # <<>> /\ Compiles(format.Pattern)
  /\ \E i \in 1..Len(line) : MatchAt(format.Pattern, line, i)
\* The JSON step matches: the line decodes without an error.
JSONMatches(line) == ~Unmarshal(line).err
\* The access-log step matches: at least the common format fits.
AccessLogMatches(line) == MatchesCommon(line)

C22_JSONInjectsHost ==
  (/\ call.fn = "parseLine"
   /\ ~CustomMatches(call.args.ll.line, call.args.customFormat)
   /\ JSONMatches(call.args.ll.line) /\ ~Unmarshal(call.args.ll.line).nil) =>
    LET obj == Unmarshal(call.args.ll.line).members
        m == call.ret.ev.m
    IN /\ call.ret.ok /\ ~call.ret.panic
       /\ DOMAIN m = DOMAIN obj \cup {"host"}
       /\ \A k \in DOMAIN obj : m[k] = obj[k]
       /\ "host" \notin DOMAIN obj => m["host"] = StrVal(call.args.host)

C22_Witness ==
  /\ call.fn = "parseLine"
  /\ call.args.ll.line = <<"{", "a", "1", "host", "h2", "}">>
  /\ call.args.customFormat = KVFormat
  /\ call.ret.ev.m = ("a" :> FloatVal(1)) @@ ("host" :> StrVal("h2"))

\* The number of groups of a pattern.
NumGroups(pattern) == Cardinality({k \in 1..Len(pattern) : pattern[k] = Group})
\* The field's mapping resolves: a placeholder, or the number of a group.
Resolves(format, field) ==
  LET g == format.Fields[field] IN
  \/ g \in {"hostname", "filename"}
  \/ g \in DOMAIN Decimal /\ Decimal[g] \in 1..NumGroups(format.Pattern)
\* The value is the captured text, as a string or as the number it denotes.
IsValueOf(v, tok) ==
  \/ v = StrVal(tok)
  \/ v.kind \in {"int", "float"} /\ tok \in DOMAIN Decimal /\ v.num = Decimal[tok] /\ v.text = ""
  \/ v.kind = "float" /\ v.text = tok

\* C23: parseCustomFormat yields an event exactly when the pattern matches.
\* The event's members are the fields whose mapping resolves, the declared
\* defaults and host: a resolved field holds the hostname, the file path or
\* its group's captured value, a default shows only where no mapping resolved,
\* and host is the hostname when neither set it.
C23_CustomFormatFields ==
  call.fn = "parseCustomFormat" =>
    LET a == call.args
        fm == a.format
        ev == call.ret.event
        sub == FindStringSubmatch(fm.Pattern, a.line)
        resolved == {fd \in DOMAIN fm.Fields : Resolves(fm, fd)}
    IN IF CustomMatches(a.line, fm)
       THEN /\ call.ret.ok
            /\ DOMAIN ev = resolved \cup DOMAIN fm.Default \cup {"host"}
            /\ \A fd \in resolved :
                 LET g == fm.Fields[fd] IN
                 IF g = "hostname" THEN ev[fd] = StrVal(a.hostname)
                 ELSE IF g = "filename" THEN ev[fd] = StrVal(a.filename)
                 ELSE IsValueOf(ev[fd], sub[Decimal[g] + 1])
            /\ \A k \in DOMAIN fm.Default \ resolved : ev[k] = fm.Default[k]
            /\ "host" \notin resolved \cup DOMAIN fm.Default => ev["host"] = StrVal(a.hostname)
       ELSE ~call.ret.ok /\ ev = EmptyMap

C23_Witness ==
  /\ call.fn = "parseCustomFormat"
  /\ call.args.format = MiscFormat
  /\ call.args.line = <<"say", "x", "9">>
  /\ call.ret.event = ("src" :> StrVal("a.log")) @@ ("path" :> StrVal("9"))
                        @@ ("miss" :> StrVal("dflt")) @@ ("env" :> StrVal("prod"))
                        @@ ("host" :> StrVal("dhost"))

\* C24: in a custom-format match a group's text mapped to status or bytes is
\* stored as an int, and one mapped to rt as a float, when it parses as one;
\* the raw text is stored when it does not, and for every other field; the
\* match stands either way.
C24_NumericCoercion ==
  (call.fn = "parseCustomFormat" /\ CustomMatches(call.args.line, call.args.format)) =>
    LET fm == call.args.format
        ev == call.ret.event
        sub == FindStringSubmatch(fm.Pattern, call.args.line)
    IN /\ call.ret.ok
       /\ \A fd \in DOMAIN fm.Fields :
            (Resolves(fm, fd) /\ fm.Fields[fd] \in DOMAIN Decimal) =>
              LET tok == sub[Decimal[fm.Fields[fd]] + 1] IN
              ev[fd] = CASE fd \in {"status", "bytes"} ->
                              IF tok \in DOMAIN Decimal THEN IntVal(Decimal[tok]) ELSE StrVal(tok)
                         [] fd = "rt" ->
                              IF ParseFloat(tok).err THEN StrVal(tok) ELSE ParseFloat(tok).val
                         [] OTHER -> StrVal(tok)

C24_Witness ==
  /\ call.fn = "parseCustomFormat"
  /\ call.args.format = NumFormat
  /\ call.args.line = <<"x", "1.5">>
  /\ call.ret.event = ("status" :> StrVal("1.5")) @@ ("bytes" :> StrVal("1.5"))
                        @@ ("rt" :> FloatText("1.5")) @@ ("msg" :> StrVal("1.5"))
                        @@ ("host" :> StrVal(Hostname))

\* C25 as stated: parseAccessLog accepts exactly the lines that fit the common
\* format and uses the most detailed of the three formats that fits; method,
\* path, status and bytes are the request's and the two numeric columns', and
\* a numeric column that does not parse gives 0.
C25_AccessLogFields ==
  call.fn = "parseAccessLog" =>
    LET line == call.args.line
        e == call.ret.entry
    IN IF MatchesCommon(line)
       THEN /\ call.ret.ok
            /\ e.Method = line[5] /\ e.Path = line[6] /\ e.Src = line[1]
            /\ e.Host = call.args.hostname
            /\ e.Status = IF Atoi(line[7]).err THEN 0 ELSE Decimal[line[7]]
            /\ e.Bytes = IF ParseInt(line[8]).err THEN 0 ELSE Decimal[line[8]]
            /\ e.RT = IF MatchesNginxWithRT(line) /\ ~ParseFloat(line[11]).err
                      THEN ParseFloat(line[11]).val ELSE FloatVal(0)
            /\ e.UserAgent = IF MatchesCombined(line) THEN line[10] ELSE ""
       ELSE ~call.ret.ok

\* C13 as stated: parseLine returns a result for every line and format, so no
\* line taken from a queue ends the dispatch loop and the process by a panic.
C13_ParseNeverPanics == dpc # "crashed"

(* ------------------------------ discovery ------------------------------ *)
\* A well-formed pattern of the list matches the name.
MatchedBy(patterns, name) ==
  \E i \in 1..Len(patterns) :
    ValidatePattern(patterns[i]) /\ name \in GlobTable[patterns[i]]
\* The files of the disk a stream asks for: matched by some well-formed
\* include pattern and by no well-formed exclude pattern.
Wanted(stream, disk) ==
  {x \in disk : MatchedBy(stream.Paths, x) /\ ~MatchedBy(stream.Exclude, x)}
Elements(seq) == {seq[i] : i \in 1..Len(seq)}

C27_NoMappingWithoutStreamID ==
  call.fn = "discover" =>
    \A i \in 1..Len(call.ret.mappings) : call.ret.mappings[i].Stream.StreamID # ""

\* C32 as stated: the files of a mapping form a set, no file is listed twice.
C32_FilesFormASet ==
  call.fn = "discover" =>
    \A i \in 1..Len(call.ret.mappings) :
      LET files == call.ret.mappings[i].Files
      IN \A j, k \in 1..Len(files) : j # k => files[j] # files[k]

(* ------------------------------- updater ------------------------------- *)
\* The components of a version: what is between the dots after a leading v.
Components(v) == Split(TrimPrefix(v))
\* Every component is a decimal numeral.
Numeric(v) ==
  \A i \in 1..Len(Components(v)) :
    Len(Components(v)[i]) = 1 /\ Components(v)[i][1] \in DOMAIN Decimal
\* The value of the i-th component, 0 when there is none.
ComponentValue(v, i) ==
  IF i <= Len(Components(v)) THEN Decimal[Components(v)[i][1]] ELSE 0
\* l is strictly greater than c, component by component.
Newer(l, c) ==
  \E i \in 1..(Len(Components(l)) + Len(Components(c))) :
    /\ ComponentValue(l, i) > ComponentValue(c, i)
    /\ \A j \in 1..(i - 1) : ComponentValue(l, j) = ComponentValue(c, j)

\* C28 as stated: compareVersions reports an update for a current version dev
\* or unknown; otherwise an error and no update when some component of either
\* version is no number; otherwise an update exactly when latest is strictly
\* greater than current.
C28_CompareVersions ==
  call.fn = "compareVersions" =>
    LET current == call.args.current
        latest == call.args.latest
    IN IF TrimPrefix(current) \in {<<"dev">>, <<"unknown">>}
       THEN call.ret = [ok |-> TRUE, err |-> ""]
       ELSE IF ~Numeric(current) \/ ~Numeric(latest)
       THEN ~call.ret.ok /\ call.ret.err # ""
       ELSE call.ret = [ok |-> Newer(latest, current), err |-> ""]

(* ------------------------------- shipper ------------------------------- *)
\* C17 as stated: every request carries the resolved credential, the stream's
\* own key, else the fleet-wide key, and no Authorization header only when
\* neither is configured.
C17_ResolvedCredential ==
  \A i \in 1..Len(requests) :
    requests[i].sent =>
      LET sc == streamCfg[requests[i].stream] IN
      requests[i].auth =
        IF sc.Key # "" THEN <<"Bearer ", sc.Key>>
        ELSE IF cfgKey # "" THEN <<"Bearer ", cfgKey>>
        ELSE NoHeader

\* The base ingest URL as configured: the environment's value when set.
ConfiguredBase == IF baseEnv # "" THEN baseEnv ELSE DefaultBase

\* C18 as stated: a batch is posted to the stream's URL override whenever one
\* is set, and otherwise to {base}/api/ingest/{streamID} with the configured,
\* environment-overridable base.
C18_ResolvedURL ==
  \A i \in 1..Len(requests) :
    LET sc == streamCfg[requests[i].stream] IN
    /\ sc.LegacyURL # "" => requests[i].sent
    /\ requests[i].sent =>
         requests[i].url =
           IF sc.LegacyURL # "" THEN <<sc.LegacyURL>>
           ELSE <<ConfiguredBase, "/api/ingest/", sc.StreamID>>

\* C19 as stated: shipEvents returns an error exactly when there is no
\* response (transport failure) or the response status is not 2xx.
C19_ErrorIffNot2xx ==
  \A i \in 1..Len(requests) :
    ~requests[i].ok <=>
      (requests[i].resp = NoResponse \/ requests[i].resp \notin 200..299)

\* C31: shipEvents for a stream without a stream id returns an error and
\* sends no request, whatever the batch, the keys, the URL override and the
\* network.
C31_NoStreamIDNoRequest ==
  (call.fn = "shipEvents" /\ call.args.stream.StreamID = "") =>
    /\ call.ret.err
    /\ ~call.ret.sent /\ call.ret.url = <<>> /\ call.ret.body = <<>>

\* The call with the empty batch, for a stream that has a URL override and a
\* key but no stream id.
C31_Witness ==
  /\ call.fn = "shipEvents"
  /\ call.args.stream.StreamID = "" /\ call.args.stream.LegacyURL # ""
  /\ call.args.stream.Key # ""
  /\ call.args.events = <<>>
  /\ call.ret.err /\ ~call.ret.sent

RECURSIVE SplitLines(_)
\* The lines of a body: the pieces ended by a newline, and an unended rest.
SplitLines(b) ==
  IF b = <<>> THEN <<>>
  ELSE IF \A k \in 1..Len(b) : ~b[k].nl THEN <<b>>
  ELSE LET n == CHOOSE k \in 1..Len(b) : b[k].nl /\ \A j \in 1..(k - 1) : ~b[j].nl
       IN <<SubSeq(b, 1, n - 1)>> \o SplitLines(SubSeq(b, n + 1, Len(b)))

\* C20 as stated: the body sent for a batch of n events has exactly n lines,
\* the k-th being the JSON encoding of the k-th event, each ended by a newline.
C20_BodyOneLinePerEvent ==
  \A i \in 1..Len(requests) :
    requests[i].sent =>
      LET body == requests[i].body
          events == requests[i].events
      IN /\ Len(SplitLines(body)) = Len(events)
         /\ \A k \in 1..Len(events) :
              /\ ~Marshal(events[k]).err
              /\ SplitLines(body)[k] = Marshal(events[k]).data
         /\ body # <<>> => body[Len(body)].nl

(* ------------------------------- tailing ------------------------------- *)
\* What the tailer has handed on or is about to: sent lines, then the one in hand.
Produced(t) == emitted[t] \o (IF pending[t] = NoLine THEN <<>> ELSE <<pending[t]>>)

\* The lines of inode ino after offset off, up to the reader's position.
ReadSince(t, ino, off) == [i \in 1..(pos[t] - off) |-> LogLine(t, ino, off + i)]

WrittenAfterFirstOpen(t) ==
  IF opened[t] = <<>> THEN {}
  ELSE {ik \in UNION {{<<i, k>> : k \in 1..Len(content[i])} : i \in 1..Len(content)} :
          \/ ik[1] > opened[t][1][1]
          \/ ik[1] = opened[t][1][1] /\ ik[2] > opened[t][1][2]}

\* Every file created at the path, but possibly the newest, was opened by the
\* tailer: no detection window held two rotations.
OneRotationPerWindow(t) ==
  opened[t] # <<>> =>
    \A i \in opened[t][1][1]..(Len(content) - 1) :
      \E k \in 1..Len(opened[t]) : opened[t][k][1] = i

\* The tailer neither produced the line nor can still come to it: its handle is
\* on a later file, or past the line in the same file.
Lost(t, i, k) ==
  /\ \A n \in 1..Len(Produced(t)) : Produced(t)[n].src # <<t, i, k>>
  /\ f[t] # NoInode
  /\ f[t] > i \/ (f[t] = i /\ pos[t] >= k)

\* C2 as stated: with at most one rotation per detection window, no line
\* written after the first successful open is ever lost to the tailer.
C2_AtLeastOnce ==
  \A t \in active :
    OneRotationPerWindow(t) =>
      \A ik \in WrittenAfterFirstOpen(t) : ~Lost(t, ik[1], ik[2])

\* This step handled a tick of the tailer's rotation timer.
TickHandled(t) == retryTick[t] /\ ~retryTick'[t]

\* No line was produced twice.
NoReemit(t) ==
  \A m, n \in 1..Len(Produced(t)) : m # n => Produced(t)[m].src # Produced(t)[n].src

\* What was produced since the last open is what was appended after it.
ProducedSinceOpen(t) ==
  f[t] # NoInode =>
    LET o == opened[t][Len(opened[t])]
        n == pos[t] - o[2]
        all == Produced(t)
    IN /\ n <= Len(all)
       /\ SubSeq(all, Len(all) - n + 1, Len(all)) = ReadSince(t, o[1], o[2])

\* C3: a tick handled while the path names a readable file leaves the tailer
\* open on that file (at its end when it was not already on it); the handle
\* changes only at a tick or at the initial open; what it produces from a
\* handle is what was appended after the open; nothing is produced twice.
C3_ResumesOnNewFile ==
  [][\A t \in active :
       LET p == FileOf(t) IN
       /\ (TickHandled(t) /\ CanOpen(p)) =>
            /\ f'[t] = path[p] /\ currentInode'[t] = stat[path[p]].Ino /\ tpc'[t] = "loop"
            /\ f[t] # path[p] => pos'[t] = Len(content[path[p]])
       /\ f'[t] # f[t] => (TickHandled(t) \/ tpc[t] = "start")
       /\ ProducedSinceOpen(t)'
       /\ NoReemit(t)']_vars

C3_Witness ==
  /\ Len(opened[1]) >= 2
  /\ opened[1][1][1] # opened[1][Len(opened[1])][1]
  /\ \E m, n \in 1..Len(emitted[1]) :
       /\ m < n
       /\ emitted[1][m].src[2] = opened[1][1][1]
       /\ emitted[1][n].src[2] = opened[1][Len(opened[1])][1]

\* C29 as stated: a tick handled while a file is open closes the handle when
\* the path names nothing or names a file whose device or inode number is not
\* that of the open file, and leaves handle and position alone otherwise.
C29_RotationCheckIdentity ==
  [][\A t \in active :
       (TickHandled(t) /\ f[t] # NoInode) =>
         LET p == FileOf(t) IN
         IF path[p] = NoInode \/ stat[path[p]] # stat[f[t]]
         THEN f'[t] # f[t]
         ELSE f'[t] = f[t] /\ pos'[t] = pos[t]]_vars

\* The tailer opened the file while its line idx was unfinished.
OpenedInside(t, ino, idx) ==
  \E k \in 1..Len(opened[t]) :
    opened[t][k][1] = ino /\ opened[t][k][2] = idx - 1 /\ opened[t][k][3] > 0

\* C33 as stated: a LogLine emitted for a line that was begun after the tailer
\* opened the file has the complete text of the line, in however many writes
\* the line was appended.
C33_CompleteLineText ==
  \A t \in active : \A i \in 1..Len(emitted[t]) :
    LET ino == emitted[t][i].src[2]
        idx == emitted[t][i].src[3]
    IN ~OpenedInside(t, ino, idx) => emitted[t][i].line = TrimRight(content[ino][idx])

\* C11: a tailer that takes the cancellation case closes its handle, is done
\* and hands on nothing in that step; a tailer that is done stays done with no
\* handle and emits nothing more; main returns only when every tailer is done,
\* and once it has returned no tailer emits or queues a line.
C11_NoLineAfterCancel ==
  [][\A t \in active :
       /\ (tpc[t] # "done" /\ tpc'[t] = "done") =>
            /\ cancelled /\ tpc[t] = "loop"
            /\ f'[t] = NoInode /\ pos'[t] = NoReader
            /\ emitted'[t] = emitted[t] /\ pending'[t] = NoLine
       /\ tpc[t] = "done" =>
            /\ tpc'[t] = "done" /\ f'[t] = NoInode
            /\ emitted'[t] = emitted[t] /\ pending'[t] = NoLine
       /\ dpc' = "returned" => tpc'[t] = "done"
       /\ dpc = "returned" => (emitted' = emitted /\ queue' = queue)]_vars

C11_Witness ==
  /\ dpc = "returned" /\ tpc[1] = "done"
  /\ f[1] = NoInode /\ currentInode[1] # NoInode
  /\ emitted[1] # <<>>

\* C15: every open, the initial one and each reopen, leaves the reader at the
\* end of the file the path names; every line the tailer reads comes from the
\* file of its latest open and lies after the offset that open started at.
C15_OpensAtEnd ==
  [][\A t \in active :
       /\ opened'[t] # opened[t] =>
            LET o == opened'[t][Len(opened'[t])] IN
            /\ o[1] = path[FileOf(t)] /\ f'[t] = o[1]
            /\ o[2] = Len(content[o[1]]) /\ pos'[t] = o[2]
       /\ (pending'[t] # pending[t] /\ pending'[t] # NoLine) =>
            LET o == opened[t][Len(opened[t])] IN
            /\ pending'[t].src[2] = o[1]
            /\ pending'[t].src[3] > o[2]]_vars

C15_Witness ==
  /\ Len(opened[1]) >= 2
  /\ opened[1][1][2] >= 1 /\ opened[1][2][2] >= 1
  /\ emitted[1] # <<>>
  /\ emitted[1][Len(emitted[1])].src[2] = opened[1][2][1]

\* Reconnecting: in the loop with no open handle.
Reconnecting(t) == tpc[t] = "loop" /\ f[t] = NoInode /\ pos[t] = NoReader

C10_ShutdownTerminates ==
  cancelled ~> (dpc = "returned" /\ \A t \in active : tpc[t] = "done")

(* ------------------------- batching and shipping ----------------------- *)
RECURSIVE EventsOf(_, _)
\* The events handed to the shipper for stream s, in request order.
EventsOf(s, reqs) ==
  IF reqs = <<>> THEN <<>>
  ELSE (IF Head(reqs).stream = s THEN Head(reqs).events ELSE <<>>) \o EventsOf(s, Tail(reqs))

RECURSIVE Accepted(_)
\* The events parseLine accepts from a sequence of lines, in order.
Accepted(lines) ==
  IF lines = <<>> THEN <<>>
  ELSE LET r == parseLine(Head(lines), Hostname, streamCfg[StreamOf(Head(lines).src[1])].Format)
       IN (IF r.ok THEN <<r.ev>> ELSE <<>>) \o Accepted(Tail(lines))

FromTailer(seq, t) == SelectSeq(seq, LAMBDA x : x.src[1] = t)
Range(seq) == {seq[i] : i \in 1..Len(seq)}
\* This step made one shipEvents call, for stream s.
Shipped(s) ==
  /\ Len(requests') = Len(requests) + 1
  /\ requests'[Len(requests')].stream = s
\* This step is the iteration for s of the tick's loop / of the pass.
TickIteration(s) == dpc = "tick" /\ s \notin visited /\ s \in visited'
PassIteration(s) == dpc = "pass" /\ s \notin visited /\ s \in visited'

\* C4: in file mode and in stdin mode a batch never holds more than the limit:
\* between steps it is below it, and what is shipped when it reaches it has
\* exactly that many events at most.
C4_BatchBounded ==
  /\ \A s \in AllStreams : Len(batch[s]) < BatchLimit
  /\ \A i \in 1..Len(requests) : Len(requests[i].events) <= BatchLimit

C4_Witness ==
  \E i \in 1..Len(requests) :
    /\ Len(requests[i].events) = BatchLimit
    /\ i < Len(requests)

\* C5 as stated: a batch is never shipped while it holds fewer events than the
\* limit and less than a flush period has passed since its first event.
C5_FlushOnlyWhenFullOrOld ==
  [][\A s \in Streams :
       Shipped(s) =>
         \/ Len(requests'[Len(requests')].events) >= BatchLimit
         \/ age[s] >= FlushPeriod]_vars

\* C5 amended: a batch is shipped exactly when an append makes it reach the
\* limit, or when the loop handling a tick of the fleet-wide ticker comes to
\* its stream and finds it non-empty, whatever its age.
C5_FlushOnFullOrTick ==
  [][\A s \in Streams :
       /\ Shipped(s) =>
            \/ /\ TickIteration(s) /\ batch[s] # <<>>
               /\ requests'[Len(requests')].events = batch[s]
            \/ /\ PassIteration(s) /\ Len(batch[s]) = BatchLimit - 1
               /\ Len(requests'[Len(requests')].events) = BatchLimit
       /\ (TickIteration(s) /\ batch[s] # <<>>) => Shipped(s)
       /\ Len(batch'[s]) < BatchLimit]_vars

C5_Witness ==
  /\ \E i \in 1..Len(requests) :
       requests[i].stream \in Streams /\ Len(requests[i].events) < BatchLimit
  /\ \E i \in 1..Len(requests) :
       requests[i].stream \in Streams /\ Len(requests[i].events) = BatchLimit

\* C16: in the loop of a handled tick each stream is visited once; a stream
\* whose batch is non-empty gets exactly one shipEvents call, carrying that
\* batch, a stream whose batch is empty gets none; nothing is appended while
\* the loop runs, so when it ends every stream's batch is empty. The same for
\* the one batch of stdin mode.
C16_TickFlushesAllNonEmpty ==
  [][/\ Len(requests') <= Len(requests) + 1
     /\ \A s \in Streams :
          TickIteration(s) =>
            /\ batch[s] # <<>> <=> Shipped(s)
            /\ Shipped(s) => requests'[Len(requests')].events = batch[s]
            /\ Len(requests') > Len(requests) => Shipped(s)
            /\ batch'[s] = <<>>
     /\ dpc' = "tick" => \A s \in visited' : batch'[s] = <<>>
     /\ (dpc = "tick" /\ dpc' = "select") =>
          (visited' = Mapped /\ \A s \in Mapped : batch'[s] = <<>>)
     /\ (mode = "stdin" /\ flushTick /\ ~flushTick') =>
          /\ batch[StdinStream] # <<>> <=> Shipped(StdinStream)
          /\ batch'[StdinStream] = <<>>]_vars

C16_Witness ==
  /\ dpc = "select" /\ visited = Mapped
  /\ \E i \in 1..(Len(requests) - 1) :
       /\ requests[i].stream # requests[i + 1].stream
       /\ Len(requests[i].events) < BatchLimit
       /\ Len(requests[i + 1].events) < BatchLimit
       /\ i + 1 = Len(requests)
  /\ \A s \in Mapped : batch[s] = <<>>

\* C6: a flushed batch is handed to the shipper once and is gone whatever the
\* answer: no event is in two requests, or twice in one, and no event still in
\* a batch is in any request.
C6_FlushOnceThenEmpty ==
  /\ \A i, j \in 1..Len(requests) :
       i # j => Range(requests[i].events) \cap Range(requests[j].events) = {}
  /\ \A i \in 1..Len(requests) :
       Cardinality(Range(requests[i].events)) = Len(requests[i].events)
  /\ mode = "file" =>
       \A s \in Streams, i \in 1..Len(requests) :
         Range(batch[s]) \cap Range(requests[i].events) = {}

C6_Witness ==
  /\ mode = "file"
  /\ \E i, j \in 1..Len(requests) :
       /\ i < j
       /\ ~requests[i].ok
       /\ requests[j].stream = requests[i].stream
       /\ batch[requests[i].stream] = <<>>

\* C7: a failed shipment for stream s leaves every other stream's queue and
\* batch as they were, leaves s with an empty batch and its queue intact apart
\* from the line just taken, touches no tailer, and the loop goes on.
C7_FailureIsolated ==
  [][\A s \in Streams :
       (Shipped(s) /\ ~requests'[Len(requests')].ok) =>
         /\ \A u \in AllStreams \ {s} : batch'[u] = batch[u] /\ queue'[u] = queue[u]
         /\ batch'[s] = <<>>
         /\ queue'[s] = queue[s] \/ (queue[s] # <<>> /\ queue'[s] = Tail(queue[s]))
         /\ tailVars' = tailVars
         /\ dpc' \in {"select", "tick", "pass"}]_vars

C7_Witness ==
  \E i, j, k \in 1..Len(requests) :
    /\ i < j /\ i < k
    /\ ~requests[i].ok
    /\ requests[i].stream \in Streams
    /\ requests[j].stream = requests[i].stream
    /\ requests[k].stream \in Streams \ {requests[i].stream}

\* The tailer is held at the enqueue: its line in hand, the stream's queue full.
Stalled(t) == tpc[t] = "send" /\ Len(queue[ChanOf(t)]) = QueueCap

\* C14: no queue ever holds more than its capacity; a tailer held at a full
\* queue keeps its line in hand until the dispatch loop takes a line, after
\* which the queue has room for it; a queue changes only by a tailer's line
\* joining its end or its first line going to the dispatch loop; what a tailer
\* has emitted is, in order, what the loop received followed by what is queued.
C14_BoundedQueueNoLoss ==
  [][/\ \A s \in AllStreams : Len(queue'[s]) <= QueueCap
     /\ \A t \in active :
          LET s == StreamOf(t) IN
          /\ Stalled(t) =>
               /\ tpc'[t] = "send" /\ pending'[t] = pending[t] /\ emitted'[t] = emitted[t]
               /\ queue'[s] # queue[s] => (queue'[s] = Tail(queue[s]) /\ ~Stalled(t)')
          /\ queue'[s] # queue[s] =>
               \/ /\ queue'[s] = Append(queue[s], pending[t])
                  /\ emitted'[t] = Append(emitted[t], pending[t])
                  /\ taken'[s] = taken[s]
               \/ /\ queue'[s] = Tail(queue[s])
                  /\ taken'[s] = Append(taken[s], Head(queue[s]))
                  /\ emitted'[t] = emitted[t]
          /\ emitted'[t] = taken'[s] \o queue'[s]]_vars

C14_Witness ==
  /\ Stalled(1)
  /\ pending[1] # NoLine /\ Len(emitted[1]) = QueueCap

\* C34 as stated: the queue a tailer has put a line in is one of those the
\* dispatch loop ranges over.
C34_EveryQueueDrained ==
  \A t \in active : emitted[t] # <<>> => ChanOf(t) \in Mapped

\* C30: a pass iteration that takes a line of stream s giving an event, with
\* the batch of s one short of the limit, makes exactly one shipEvents call,
\* for s and with the full batch, empties the batch of s, and leaves the batch
\* and the queue of every other stream as they were.
C30_OnlyFullBatchFlushed ==
  [][\A s \in Streams :
       ( /\ PassIteration(s) /\ queue[s] # <<>>
         /\ Accepted(<<Head(queue[s])>>) # <<>>
         /\ Len(batch[s]) = BatchLimit - 1 ) =>
         /\ Len(requests') = Len(requests) + 1
         /\ SubSeq(requests', 1, Len(requests)) = requests
         /\ requests'[Len(requests')].stream = s
         /\ requests'[Len(requests')].events = batch[s] \o Accepted(<<Head(queue[s])>>)
         /\ batch'[s] = <<>>
         /\ \A u \in AllStreams \ {s} : batch'[u] = batch[u] /\ queue'[u] = queue[u]]_vars

\* A full batch was just shipped for one stream while the other stream holds
\* an event in its batch.
C30_Witness ==
  /\ mode = "file" /\ requests # <<>>
  /\ \E s, u \in Streams :
       /\ s # u
       /\ requests[Len(requests)].stream = s
       /\ Len(requests[Len(requests)].events) = BatchLimit
       /\ batch[s] = <<>>
       /\ batch[u] # <<>>

\* C8: whatever is queued, batched or shipped for a stream comes from a tailer
\* of a file discovered for that stream.
C8_StreamsNeverMix ==
  mode = "file" =>
    /\ \A i \in 1..Len(requests) :
         \A e \in Range(requests[i].events) : StreamOf(e.src[1]) = requests[i].stream
    /\ \A s \in Streams :
         /\ \A e \in Range(batch[s]) : StreamOf(e.src[1]) = s
         /\ \A l \in Range(queue[s]) : StreamOf(l.src[1]) = s

C8_Witness ==
  /\ \E i \in 1..Len(requests) : requests[i].stream = "s1"
  /\ \E i \in 1..Len(requests) : requests[i].stream = "s2"

\* C9: for each tailer, the events shipped and batched for its stream that
\* come from it are, in order, the accepted lines it emitted, less those still
\* in the queue.
C9_OrderPreserved ==
  mode = "file" =>
    \A t \in active :
      Accepted(emitted[t]) =
        FromTailer(EventsOf(StreamOf(t), requests) \o batch[StreamOf(t)], t)
          \o Accepted(FromTailer(queue[StreamOf(t)], t))

C9_Witness ==
  \E t \in active, i \in 1..Len(requests) :
    /\ Len(requests[i].events) >= 2
    /\ requests[i].stream = StreamOf(t)
    /\ Len(emitted[t]) > Len(Accepted(emitted[t]))

(* ------------------------------ stdin mode ----------------------------- *)
\* C35: in stdin mode the events shipped, followed until the return by those
\* in the batch, are the accepted ones of the lines received, in order; the
\* lines received are the lines scanned, in order; at the return every line of
\* the input was received and every accepted one shipped, none twice; and once
\* the reader has closed the channel the mode returns.
C35_StdinFinalShipment ==
  /\ [](mode = "stdin" =>
          LET lines == taken[StdinStream]
              shipped == EventsOf(StdinStream, requests)
          IN /\ \A k \in 1..Len(lines) : lines[k].src[3] = k
             /\ dpc # "returned" => shipped \o batch[StdinStream] = Accepted(lines)
             /\ dpc = "returned" =>
                  /\ stdin = <<>> /\ Len(lines) = written
                  /\ shipped = Accepted(lines))
  /\ (mode = "stdin" /\ linesClosed) ~> (dpc = "returned")

\* The mode has returned after a full batch was shipped and then, at the end
\* of the input, the one event left.
C35_Witness ==
  /\ mode = "stdin" /\ dpc = "returned"
  /\ Len(requests) = 2
  /\ Len(requests[1].events) = BatchLimit
  /\ Len(requests[2].events) = 1
  /\ Len(taken[StdinStream]) = written

C37_NothingAfterCancelObserved ==
  [][(mode = "file" /\ dpc \in {"wait", "returned"}) =>
       /\ requests' = requests
       /\ taken' = taken
       /\ batch' = batch
       /\ \A s \in Streams :
            /\ Len(queue'[s]) >= Len(queue[s])
            /\ SubSeq(queue'[s], 1, Len(queue[s])) = queue[s]]_vars

\* main has returned with an event in a batch and a line in a queue, neither
\* of them in any request.
C37_Witness ==
  /\ mode = "file" /\ dpc = "returned"
  /\ \E s \in Streams :
       /\ batch[s] # <<>> /\ queue[s] # <<>>
       /\ \A i \in 1..Len(requests) : batch[s][1] \notin Range(requests[i].events)

(* ------------------------------ oauth poll ----------------------------- *)
\* The answer ends the polling: decoded, with an error field other than
\* authorization_pending or with none.
Final(ans) == ans.kind = "decoded" /\ ans.Error # "authorization_pending"

\* C38: pollForToken goes on to another round after a failed request, a
\* failed decoding and authorization_pending; it returns on the first other
\* answer, the token (and no error) when the answer has no error field, an
\* error naming the field (and no token) when it has one; it returns the
\* timeout error only when the time allowed has elapsed; and it returns.
C38_PollForToken ==
  /\ [][Polling =>
          /\ (call.pc = "post" /\ call'.pc # "post") =>
               /\ call'.last \in PollAnswers
               /\ call'.pc = "returned" <=> Final(call'.last)
               /\ (Final(call'.last) /\ call'.last.Error = "") =>
                    call'.ret = [token |-> call'.last, err |-> NoError]
               /\ (Final(call'.last) /\ call'.last.Error # "") =>
                    call'.ret = [token |-> NoToken, err |-> <<"oauth error: ", call'.last.Error>>]
          /\ (call.pc = "check" /\ call'.pc = "returned") =>
               /\ call.left = 0
               /\ call'.ret = [token |-> NoToken, err |-> <<"authorization timeout">>]
          /\ (call.pc = "check" /\ call.left > 0) => call'.pc \in {"check", "post"}
          /\ call.pc = "returned" => call' = call]_vars
  /\ Polling ~> (Polling /\ call.pc = "returned")
  /\ [](Polling /\ call.pc = "returned" /\ ~Final(call.last) =>
          call.ret.err = <<"authorization timeout">>)

\* The authorization stayed pending until the time allowed had elapsed.
C38_Witness ==
  /\ Polling /\ call.pc = "returned"
  /\ call.ret.err = <<"authorization timeout">>
  /\ call.last = TokenResponse("authorization_pending", "")
  /\ call.args.interval = 2

(* ---------------------------- tailer handles --------------------------- *)
\* The inodes of the handles a tailer opened, in order.
OpenedInodes(t) == [k \in 1..Len(opened[t]) |-> opened[t][k][1]]

\* C39: a tailer has a handle exactly when it has a reader; the handles it
\* closed are those it opened, in order, all of them when it holds none and
\* all but the last when it holds one, so that at most one is open at a time;
\* when it has terminated it holds none; and a line is read only from a
\* handle it holds, before and after the read.
C39_HandleAndReader ==
  /\ [](\A t \in active :
          /\ f[t] = NoInode <=> pos[t] = NoReader
          /\ closed[t] = SubSeq(OpenedInodes(t), 1,
                                Len(opened[t]) - (IF f[t] # NoInode THEN 1 ELSE 0))
          /\ f[t] # NoInode => f[t] = opened[t][Len(opened[t])][1]
          /\ tpc[t] = "done" => (f[t] = NoInode /\ Len(closed[t]) = Len(opened[t])))
  /\ [][\A t \in active :
          /\ (pending'[t] # pending[t] /\ pending'[t] # NoLine) =>
               (f[t] # NoInode /\ pos[t] # NoReader /\ f'[t] = f[t]
                /\ pending'[t].src[2] = f[t])
          /\ Len(opened'[t]) <= Len(opened[t]) + 1
          /\ tpc[t] = "done" => (opened'[t] = opened[t] /\ f'[t] = NoInode)]_vars

\* The tailer has terminated after opening the file, losing the handle to a
\* rotation and opening the new file: both handles were closed.
C39_Witness ==
  /\ tpc[1] = "done"
  /\ Len(opened[1]) >= 2 /\ Len(closed[1]) = Len(opened[1])
  /\ closed[1][1] # closed[1][2]

====
